---- MODULE Spec2Model ----
(***************************************************************************)
(* The data-preparation pipeline of the global heart-disease dashboard:    *)
(* the merger script preprocessing_scripts/main_pipeline.py and the        *)
(* imputers of the source cleaners.                                         *)
(*                                                                         *)
(* A frame is a record [columns, rows]: the set of its column names and    *)
(* the sequence of its rows, each row a function from the column names to  *)
(* cells.  A cell is <<>> (missing, NaN/None) or <<v>> (the value v).      *)
(* Numbers are integers: every arithmetic result is rounded to the nearest *)
(* integer (finite precision), and standardised scores, which are of       *)
(* magnitude 1 whatever the data, are carried Precision times finer.       *)
(***************************************************************************)
EXTENDS Integers, Sequences, FiniteSets, TLC

VARIABLES
    pc,          \* position of the running script or call
    frames,      \* main_pipeline: the four frames read from the processed files
    merged_df,   \* main_pipeline: merged_df
    col_i,       \* main_pipeline: position of the loop over columns_to_impute
    saved,       \* main_pipeline: the rows written to cleaned_final_data.csv
    given,       \* imputers: the frame as it was handed to the call
    df,          \* imputers: the frame the call works on and returns
    op,          \* imputers: the imputer called
    target,      \* imputers: target_col
    raised,      \* an exception propagated out of the call or the script
    datasets,    \* processing.py: the files written to datasets/, name to frame
    arg,         \* resolvers and cleaning steps: the argument of the call
    result,      \* resolvers and cleaning steps: the value the call returned
    cache        \* app.py: the memoized values of the dashboard, key to value

vars == <<pc, frames, merged_df, col_i, saved, given, df, op, target, raised,
          datasets, arg, result, cache>>

-----------------------------------------------------------------------------
(* Bounds of the model. *)

\* rows of each input frame
MaxRows == 1

\* rows of a frame handed to an imputer
MaxImputeRows == 3

\* steps per unit of the standardised scores
Precision == 10

\* the longest country name handed to the resolver, in characters
MaxNameLen == 4

\* the most rows in the first table of a cleaner
MaxSourceRows == 2

\* rows of a frame handed to a step of a cleaner
MaxStepRows == 2

-----------------------------------------------------------------------------
(* Cells, rows, frames. *)

NaN == <<>>

IsNull(c) == c = NaN

NotNull(c) == c # NaN

Num(v) == <<v>>

Frame(columns, rows) == [columns |-> columns, rows |-> rows]

EmptyFrame == Frame({}, <<>>)

RowIdx(f) == 1..Len(f.rows)

\* the cells of column c, top to bottom
Column(f, c) == [i \in RowIdx(f) |-> f.rows[i][c]]

RECURSIVE SeqSum(_)
SeqSum(s) == IF s = <<>> THEN 0 ELSE Head(s) + SeqSum(Tail(s))

RECURSIVE SetSum(_, _)
\* the sum of val[x] over the x of S
SetSum(S, val) ==
    IF S = {} THEN 0
    ELSE LET x == CHOOSE y \in S : TRUE IN val[x] + SetSum(S \ {x}, val)

RECURSIVE Flatten(_)
Flatten(ss) == IF ss = <<>> THEN <<>> ELSE Head(ss) \o Flatten(Tail(ss))

Abs(x) == IF x < 0 THEN -x ELSE x

\* a / b rounded to the nearest integer, halves away from zero (b > 0)
RoundDiv(a, b) ==
    IF a >= 0 THEN (2 * a + b) \div (2 * b) ELSE -((2 * (-a) + b) \div (2 * b))

\* all sequences over S of length at most n
SeqsUpTo(S, n) == UNION {[1..k -> S] : k \in 0..n}

-----------------------------------------------------------------------------
(* pandas: DataFrame.rename, Series.map, DataFrame.merge. *)

\* DataFrame.rename(columns=mapping): names the mapping does not know stay
RenameCol(mapping, c) == IF c \in DOMAIN mapping THEN mapping[c] ELSE c

Rename(f, mapping) ==
    LET newcols == {RenameCol(mapping, c) : c \in f.columns}
        old(n) == CHOOSE c \in f.columns : RenameCol(mapping, c) = n
    IN  Frame(newcols,
              [i \in RowIdx(f) |-> [n \in newcols |-> f.rows[i][old(n)]]])

\* Series.map(dict): a value that is no key of the dict becomes missing
MapCell(mapping, c) ==
    IF NotNull(c) /\ c[1] \in DOMAIN mapping THEN Num(mapping[c[1]]) ELSE NaN

MapColumn(f, c, mapping) ==
    Frame(f.columns,
          [i \in RowIdx(f) |-> [f.rows[i] EXCEPT ![c] = MapCell(mapping, @)]])

\* the strings of the key columns, in lexicographic order
StrOrder ==
    << " bb", "25+ years", "ABA", "Aaa", "Aba", "BBA", "BBB", "Both", "Female", "JPN", "Japan", "KOR", "Male",
       "South Korea", "USA", "United States", "United States of America", "World", "bb" >>

StringCols ==
    {"Country", "Country_Code", "Gender", "Location", "Code", "Country_code", "Age_Group"}

Rank(s) == CHOOSE k \in 1..Len(StrOrder) : StrOrder[k] = s

\* the order of two cells of column c; a missing key sorts last
CellLess(c, a, b) ==
    /\ NotNull(a)
    /\ \/ IsNull(b)
       \/ IF c \in StringCols THEN Rank(a[1]) < Rank(b[1]) ELSE a[1] < b[1]

RECURSIVE KeyLess(_, _, _)
\* lexicographic order of two rows on the key columns `on` (a sequence)
KeyLess(on, r, s) ==
    /\ on # <<>>
    /\ \/ CellLess(Head(on), r[Head(on)], s[Head(on)])
       \/ /\ r[Head(on)] = s[Head(on)]
          /\ KeyLess(Tail(on), r, s)

RECURSIVE InsertSorted(_, _, _)
InsertSorted(on, sorted, r) ==
    IF sorted = <<>> THEN <<r>>
    ELSE IF KeyLess(on, r, Head(sorted)) THEN <<r>> \o sorted
    ELSE <<Head(sorted)>> \o InsertSorted(on, Tail(sorted), r)

RECURSIVE SortByKey(_, _)
\* stable sort of rows by key
SortByKey(on, rows) ==
    IF rows = <<>> THEN <<>>
    ELSE InsertSorted(on, SortByKey(on, SubSeq(rows, 1, Len(rows) - 1)), rows[Len(rows)])

SameKey(on, r, s) == \A k \in 1..Len(on) : r[on[k]] = s[on[k]]

\* a matched pair: the left row's cells, then the right row's other cells
JoinRow(columns, l, r) ==
    [c \in columns |-> IF c \in DOMAIN l THEN l[c] ELSE r[c]]

\* a row without a match: its own cells, the other side's columns missing
PadRow(columns, r) ==
    [c \in columns |-> IF c \in DOMAIN r THEN r[c] ELSE NaN]

\* the matches of one left row, or the left row alone
LeftPart(left, right, on, columns, i) ==
    LET l == left.rows[i]
        m == SelectSeq(right.rows, LAMBDA r : SameKey(on, l, r))
    IN  IF m = <<>> THEN << PadRow(columns, l) >>
        ELSE [k \in 1..Len(m) |-> JoinRow(columns, l, m[k])]

\* the right rows no left row matches
RightOnly(left, right, on, columns) ==
    LET un == SelectSeq(right.rows,
                        LAMBDA r : \A i \in RowIdx(left) : ~SameKey(on, left.rows[i], r))
    IN  [k \in 1..Len(un) |-> PadRow(columns, un[k])]

\* a left join: the keys of the right side alone are lost
MergeOuter_Left(left, right, on) ==
    LET columns == left.columns \cup right.columns
        parts == [i \in RowIdx(left) |-> LeftPart(left, right, on, columns, i)]
    IN  Frame(columns, SortByKey(on, Flatten(parts)))

\* DataFrame.merge(right, on=on, how='outer'): every key of either side,
\* one row per matching pair, keys sorted lexicographically; missing keys
\* match each other
MergeOuter(left, right, on) ==
    LET columns == left.columns \cup right.columns
        parts == [i \in RowIdx(left) |-> LeftPart(left, right, on, columns, i)]
    IN  Frame(columns,
              SortByKey(on, Flatten(parts) \o RightOnly(left, right, on, columns)))

-----------------------------------------------------------------------------
(* pandas: Index.difference sorts the names it keeps. *)

\* the column names of the model, in lexicographic order
ColumnOrder ==
    << "Activity_Prevalence_Rate", "Age_Group", "Alcohol_Value", "BMI", "Code",
       "Code_Num", "Country", "Country_Code", "Country_code",
       "Diabetes_Prevalence_Rate", "GDP", "Gender", "Health_Expenditure",
       "Health_Expenditure (% of GDP)", "IncidenceRate", "Life_Expectancy",
       "Location", "Location_Num", "MortalityRate", "Obesity_Prevalence_Rate",
       "Overweight_Prevalence", "Prevalence of diabetes (18+ years)",
       "PrevalenceRate", "Year" >>

\* df.columns.difference(names): the other columns, sorted
ColumnsDifference(columns, names) ==
    SelectSeq(ColumnOrder, LAMBDA c : c \in columns /\ c \notin names)

SeqRange(s) == {s[k] : k \in 1..Len(s)}

-----------------------------------------------------------------------------
(* sklearn.impute.KNNImputer(n_neighbors).fit_transform(X), X the columns    *)
(* `cols` (a sequence) of `rows`.                                           *)

\* the columns both rows have a value in
Present(cols, a, b) == {k \in 1..Len(cols) : NotNull(a[cols[k]]) /\ NotNull(b[cols[k]])}

\* nan_euclidean distance of two rows, as the pair <<sum of squared
\* differences over the present columns, number of present columns>>: the
\* squared distance is their quotient times the number of columns, and
\* undefined (nan) when no column is present in both
Dist(cols, a, b) ==
    LET P == Present(cols, a, b)
        sq == [k \in P |-> (a[cols[k]][1] - b[cols[k]][1]) * (a[cols[k]][1] - b[cols[k]][1])]
    IN  <<SetSum(P, sq), Cardinality(P)>>

DistNan(d) == d[2] = 0

\* d nearer than e; an undefined distance sorts last
DistLess(d, e) == ~DistNan(d) /\ (DistNan(e) \/ d[1] * e[2] < e[1] * d[2])

DistSame(d, e) == (DistNan(d) /\ DistNan(e)) \/
                  (~DistNan(d) /\ ~DistNan(e) /\ d[1] * e[2] = e[1] * d[2])

\* the rows with a value in column c: the potential donors of c
Donors(rows, c) == {j \in 1..Len(rows) : NotNull(rows[j][c])}

\* the n nearest donors of row i for column c (ties by row position)
Nearest(rows, cols, c, i, n) ==
    LET D == Donors(rows, c)
        d(j) == Dist(cols, rows[i], rows[j])
        before(j) == {h \in D : DistLess(d(h), d(j)) \/ (DistSame(d(h), d(j)) /\ h < j)}
    IN  {j \in D : Cardinality(before(j)) < n}

\* the value imputed into the missing cell of row i, column c: the mean of
\* the nearest donors at a defined distance, or the column's mean when no
\* donor is at a defined distance
KnnValue(rows, cols, c, i, n_neighbors) ==
    LET D == Donors(rows, c)
        val == [j \in D |-> rows[j][c][1]]
        defined == {j \in D : ~DistNan(Dist(cols, rows[i], rows[j]))}
        n == IF n_neighbors < Cardinality(D) THEN n_neighbors ELSE Cardinality(D)
        near == Nearest(rows, cols, c, i, n) \cap defined
    IN  IF defined = {} THEN RoundDiv(SetSum(D, val), Cardinality(D))
        ELSE RoundDiv(SetSum(near, val), Cardinality(near))

\* the columns fit keeps: those with at least one value
ValidCols(rows, cols) ==
    SelectSeq(cols, LAMBDA c : Donors(rows, c) # {})

\* fit_transform of no rows is an error
KNNRaises(rows) == rows = <<>>

\* fit_transform's output holds the valid columns only; in it every value
\* is kept and every missing cell imputed: the cell of row i, column c
KNNImputed(rows, cols, n_neighbors, i, c) ==
    IF NotNull(rows[i][c]) THEN rows[i][c][1]
    ELSE KnnValue(rows, cols, c, i, n_neighbors)

\* df[c] = values: column c of every row replaced (added when new)
SetColumn(f, c, values) ==
    Frame(f.columns \cup {c},
          [i \in RowIdx(f) |->
              [x \in f.columns \cup {c} |-> IF x = c THEN values[i] ELSE f.rows[i][x]]])

Returned(f) == [raises |-> FALSE, df |-> f]

Raise(f) == [raises |-> TRUE, df |-> f]

-----------------------------------------------------------------------------
(* main_pipeline.py *)

n_neighbors == 5

IdentifierCols == {"Country", "Country_Code", "Age_Group", "Gender"}

\* the whole output of the imputer is written back, not its last column
impute_with_knn_AllColumns(f, target_col) ==
    IF target_col \notin f.columns \/ KNNRaises(f.rows) THEN Raise(f)
    ELSE LET feature_cols == ColumnsDifference(f.columns, IdentifierCols \cup {target_col})
             impute_cols == Append(feature_cols, target_col)
             valid == ValidCols(f.rows, impute_cols)
         IN  IF valid # impute_cols THEN Raise(f)
             ELSE Returned(Frame(f.columns,
                      [i \in RowIdx(f) |->
                          [c \in f.columns |->
                              IF c \in SeqRange(impute_cols)
                              THEN Num(KNNImputed(f.rows, impute_cols, n_neighbors, i, c))
                              ELSE f.rows[i][c]]]))

\* impute_with_knn(df, target_col): the features are every other column but
\* the identifiers, the target is put last, and the last column of the
\* imputer's output is written into the target column
impute_with_knn(f, target_col) ==
    IF target_col \notin f.columns \/ KNNRaises(f.rows) THEN Raise(f)
    ELSE LET feature_cols == ColumnsDifference(f.columns, IdentifierCols \cup {target_col})
             impute_cols == Append(feature_cols, target_col)
             valid == ValidCols(f.rows, impute_cols)
         IN  IF valid = <<>> THEN Raise(f)
             ELSE Returned(SetColumn(f, target_col,
                      [i \in RowIdx(f) |->
                          Num(KNNImputed(f.rows, impute_cols, n_neighbors, i, valid[Len(valid)]))]))

columns_to_impute ==
    << "Alcohol_Value", "IncidenceRate", "PrevalenceRate", "MortalityRate",
       "Diabetes_Prevalence_Rate", "Activity_Prevalence_Rate", "Obesity_Prevalence_Rate",
       "GDP", "Health_Expenditure (% of GDP)", "Life_Expectancy" >>

\* the rows the processed files can hold: (Country, code, Year, Gender code
\* where the file has one, metric cells)
HdRow(country, code, year, gender, rate) ==
    [Country |-> Num(country), Country_Code |-> Num(code), Year |-> Num(year),
     Gender |-> Num(gender), Age_Group |-> Num(0),
     IncidenceRate |-> rate, MortalityRate |-> rate, PrevalenceRate |-> rate]

DaRow(country, code, year, gender, prevalence, alcohol) ==
    [Location |-> Num(country), Code |-> Num(code), Year |-> Num(year), Gender |-> gender,
     Alcohol_Value |-> alcohol]
    @@ ("Prevalence of diabetes (18+ years)" :> prevalence)

GdpRow(country, code, year, activity, obesity, gdp) ==
    [Country |-> Num(country), Code |-> Num(code), Year |-> Num(year),
     Activity_Prevalence_Rate |-> activity, Obesity_Prevalence_Rate |-> obesity, GDP |-> gdp]

WhRow(health_col, country, code, year, overweight, health, life) ==
    [Country |-> Num(country), Country_code |-> Num(code), Year |-> Num(year),
     Overweight_Prevalence |-> overweight, Life_Expectancy |-> life]
    @@ (health_col :> health)

HdRows ==
    { HdRow("United States of America", "USA", 2000, 0, Num(3)),
      HdRow("South Korea", "KOR", 2001, 1, NaN) }

DaRows ==
    { DaRow("United States of America", "USA", 2000, Num(0), Num(7), NaN),
      DaRow("Japan", "JPN", 2000, Num(1), NaN, Num(2)) }

GdpRows ==
    { GdpRow("United States", "USA", 2000, Num(5), NaN, Num(-100)),
      GdpRow("South Korea", "KOR", 2001, NaN, Num(6), Num(50)),
      GdpRow("United States of America", "USA", 2000, Num(5), Num(6), NaN) }

\* the health-expenditure column is named as the cleaner writes it or as
\* columns_to_impute reads it
HealthCols == {"Health_Expenditure", "Health_Expenditure (% of GDP)"}

WhRows(health_col) ==
    { WhRow(health_col, "United States of America", "USA", 2000, Num(4), NaN, Num(77)),
      WhRow(health_col, "South Korea", "KOR", 2001, NaN, Num(9), NaN) }

\* a file of rows R: its header (the columns of R's rows) and up to MaxRows rows
FramesOf(R) ==
    LET columns == DOMAIN (CHOOSE r \in R : TRUE)
    IN  {Frame(columns, rows) : rows \in SeqsUpTo(R, MaxRows)}

NotSaved == [written |-> FALSE, frame |-> EmptyFrame]

\* lines 53-59: the four processed files are read
Init ==
    /\ pc = "loaded"
    /\ frames \in [heart_disease_df : FramesOf(HdRows),
                   diabetes_alcohol_df : FramesOf(DaRows),
                   gdp_obesity_physical_df : FramesOf(GdpRows),
                   weight_health_exp_df : UNION {FramesOf(WhRows(h)) : h \in HealthCols}]
    /\ merged_df = EmptyFrame
    /\ col_i = 0
    /\ saved = NotSaved
    /\ given = EmptyFrame
    /\ df = EmptyFrame
    /\ op = "none"
    /\ target = "none"
    /\ raised = FALSE
    /\ datasets = <<>>
    /\ cache = <<>>
    /\ arg = <<>>
    /\ result = <<>>

gender_map == (0 :> "Male") @@ (1 :> "Female")

\* lines 61-68: the column names are standardised and the Gender codes decoded
Standardize ==
    /\ pc = "loaded"
    /\ frames' =
         [weight_health_exp_df |->
              Rename(frames.weight_health_exp_df, [Country_code |-> "Country_Code"]),
          diabetes_alcohol_df |->
              MapColumn(Rename(frames.diabetes_alcohol_df,
                               [Code |-> "Country_Code", Location |-> "Country"]
                               @@ ("Prevalence of diabetes (18+ years)" :> "Diabetes_Prevalence_Rate")),
                        "Gender", gender_map),
          gdp_obesity_physical_df |->
              Rename(frames.gdp_obesity_physical_df, [Code |-> "Country_Code"]),
          heart_disease_df |->
              MapColumn(Rename(frames.heart_disease_df,
                               [Sex |-> "Gender", age_name |-> "Age_Group"]
                               @@ ("Country Code" :> "Country_Code")),
                        "Gender", gender_map)]
    /\ pc' = "standardized"
    /\ UNCHANGED <<cache, merged_df, col_i, saved, given, df, op, target, raised, datasets, arg, result>>

\* merge raises KeyError when a key column is missing on either side
MergeRaises(left, right, on) ==
    \E k \in 1..Len(on) : on[k] \notin left.columns \/ on[k] \notin right.columns

Merge(left, right, on) ==
    IF MergeRaises(left, right, on) THEN Raise(left) ELSE Returned(MergeOuter(left, right, on))

\* one merge of the script: merged_df and pc on success, the abort otherwise
MergeStep(from, to, left, right, on) ==
    /\ pc = from
    /\ \E res \in {Merge(left, right, on)} :
           /\ merged_df' = res.df
           /\ raised' = res.raises
           /\ pc' = IF res.raises THEN "aborted" ELSE to
    /\ UNCHANGED <<cache, frames, saved, given, df, op, target, datasets, arg, result>>

\* line 72
Merge1 ==
    /\ MergeStep("standardized", "merged1", frames.heart_disease_df, frames.diabetes_alcohol_df,
                 <<"Country_Code", "Country", "Year", "Gender">>)
    /\ UNCHANGED col_i

\* line 73
Merge2 ==
    /\ MergeStep("merged1", "merged2", merged_df, frames.gdp_obesity_physical_df,
                 <<"Country_Code", "Country", "Year">>)
    /\ UNCHANGED col_i

\* line 74; the loop over columns_to_impute starts next
Merge3 ==
    /\ MergeStep("merged2", "impute", merged_df, frames.weight_health_exp_df,
                 <<"Country_Code", "Country", "Year">>)
    /\ col_i' = 1

\* lines 83-84: one iteration of the imputation loop
ImputeColumn ==
    /\ pc = "impute"
    /\ \E res \in {impute_with_knn(merged_df, columns_to_impute[col_i])} :
           /\ merged_df' = res.df
           /\ raised' = res.raises
           /\ pc' = IF res.raises THEN "aborted"
                    ELSE IF col_i = Len(columns_to_impute) THEN "sanity" ELSE "impute"
           /\ col_i' = IF res.raises THEN col_i ELSE col_i + 1
    /\ UNCHANGED <<cache, frames, saved, given, df, op, target, datasets, arg, result>>

\* the filter tests the wrong sign
NegativeGdpToNaN_Positive(f) ==
    Frame(f.columns,
          [i \in RowIdx(f) |->
              [f.rows[i] EXCEPT !["GDP"] = IF NotNull(@) /\ @[1] > 0 THEN NaN ELSE @]])

\* merged_df.loc[merged_df['GDP'] < 0, 'GDP'] = np.nan
NegativeGdpToNaN(f) ==
    Frame(f.columns,
          [i \in RowIdx(f) |->
              [f.rows[i] EXCEPT !["GDP"] = IF NotNull(@) /\ @[1] < 0 THEN NaN ELSE @]])

\* line 87
SanityFilter ==
    /\ pc = "sanity"
    /\ merged_df' = NegativeGdpToNaN(merged_df)
    /\ pc' = "drop"
    /\ UNCHANGED <<cache, frames, col_i, saved, given, df, op, target, raised, datasets, arg, result>>

\* DataFrame.drop(c, axis=1)
DropColumn(f, c) ==
    Frame(f.columns \ {c},
          [i \in RowIdx(f) |-> [x \in f.columns \ {c} |-> f.rows[i][x]]])

\* lines 90-91
DropBMI ==
    /\ pc = "drop"
    /\ merged_df' = IF "BMI" \in merged_df.columns THEN DropColumn(merged_df, "BMI")
                    ELSE merged_df
    /\ pc' = "save"
    /\ UNCHANGED <<cache, frames, col_i, saved, given, df, op, target, raised, datasets, arg, result>>

\* line 94
Save ==
    /\ pc = "save"
    /\ saved' = [written |-> TRUE, frame |-> merged_df]
    /\ pc' = "done"
    /\ UNCHANGED <<cache, frames, merged_df, col_i, given, df, op, target, raised, datasets, arg, result>>

Next ==
    \/ Standardize
    \/ Merge1
    \/ Merge2
    \/ Merge3
    \/ ImputeColumn
    \/ SanityFilter
    \/ DropBMI
    \/ Save

Spec == Init /\ [][Next]_vars

-----------------------------------------------------------------------------
(* numpy.polynomial.Polynomial.fit(x, y, 2): the least-squares polynomial   *)
(* of degree 2 through the points pts (a sequence of <<x, y>>), evaluated   *)
(* at x.  fit maps the span of the x to [-1, 1], scales the columns of the  *)
(* design matrix to norm 1 and takes the least-squares solution of minimum  *)
(* norm, which is the unique one when the points have 3 distinct x.         *)

PointXs(pts) == {pts[k][1] : k \in 1..Len(pts)}

\* x to the power e, 1 for e = 0
Pow(x, e) == IF e = 0 THEN 1 ELSE x ^ e

\* the sum of x^e * y^g over the points, x taken from the offset lo
Moment(pts, lo, e, g) ==
    SeqSum([k \in 1..Len(pts) |-> Pow(pts[k][1] - lo, e) * Pow(pts[k][2], g)])

\* the points at x: their number and the sum of their values
CountAt(pts, x) == Len(SelectSeq(pts, LAMBDA q : q[1] = x))

SumAt(pts, x) == SeqSum([k \in 1..Len(pts) |-> IF pts[k][1] = x THEN pts[k][2] ELSE 0])

Det3(m) ==
      m[1][1] * (m[2][2] * m[3][3] - m[2][3] * m[3][2])
    - m[1][2] * (m[2][1] * m[3][3] - m[2][3] * m[3][1])
    + m[1][3] * (m[2][1] * m[3][2] - m[2][2] * m[3][1])

\* 3 or more distinct x: the normal equations, solved by Cramer's rule
QuadraticFit(pts, x) ==
    LET lo == CHOOSE a \in PointXs(pts) : \A b \in PointXs(pts) : a <= b
        S(e) == Moment(pts, lo, e, 0)
        T(e) == Moment(pts, lo, e, 1)
        D  == Det3(<< <<S(0), S(1), S(2)>>, <<S(1), S(2), S(3)>>, <<S(2), S(3), S(4)>> >>)
        D0 == Det3(<< <<T(0), S(1), S(2)>>, <<T(1), S(2), S(3)>>, <<T(2), S(3), S(4)>> >>)
        D1 == Det3(<< <<S(0), T(0), S(2)>>, <<S(1), T(1), S(3)>>, <<S(2), T(2), S(4)>> >>)
        D2 == Det3(<< <<S(0), S(1), T(0)>>, <<S(1), S(2), T(1)>>, <<S(2), S(3), T(2)>> >>)
        u  == x - lo
    IN  RoundDiv(D0 + D1 * u + D2 * u * u, D)

\* 2 distinct x, lo and hi, mapped to -1 and 1: the fit passes through the
\* two means m1, m2 and has the least coefficients,
\* (m1 + m2)/4 * (1 + t^2) + (m2 - m1)/2 * t
TwoPointFit(pts, x) ==
    LET lo == CHOOSE a \in PointXs(pts) : \A b \in PointXs(pts) : a <= b
        hi == CHOOSE a \in PointXs(pts) : \A b \in PointXs(pts) : a >= b
        n1 == CountAt(pts, lo)
        n2 == CountAt(pts, hi)
        s1 == SumAt(pts, lo)
        s2 == SumAt(pts, hi)
        w  == hi - lo
        u  == 2 * x - lo - hi
    IN  RoundDiv((s1 * n2 + s2 * n1) * (w * w + u * u) + 2 * (s2 * n1 - s1 * n2) * u * w,
                 4 * n1 * n2 * w * w)

\* 1 distinct x: the span is widened to [x - 1, x + 1] and the fit is the
\* constant mean
OnePointFit(pts, x) == RoundDiv(Moment(pts, 0, 0, 1), Len(pts))

\* fit raises ValueError on no points
PolynomialFitRaises(pts) == pts = <<>>

PolynomialFit(pts, x) ==
    IF Cardinality(PointXs(pts)) = 1 THEN OnePointFit(pts, x)
    ELSE IF Cardinality(PointXs(pts)) = 2 THEN TwoPointFit(pts, x)
    ELSE QuadraticFit(pts, x)

\* the rows with a value in target_col, as points <<year, value>>
KnownPoints(f, year_col, target_col) ==
    LET known == SelectSeq(f.rows, LAMBDA r : NotNull(r[target_col]))
    IN  [k \in 1..Len(known) |-> <<known[k][year_col][1], known[k][target_col][1]>>]

\* the fit is made only on 3 or more known values
main_impute_with_polynomial_Underdetermined(f, target_col) ==
    IF target_col \notin f.columns THEN Raise(f)
    ELSE IF Cardinality({i \in RowIdx(f) : NotNull(f.rows[i][target_col])}) < 3 THEN Returned(f)
    ELSE IF "Year" \notin f.columns THEN Raise(f)
    ELSE LET pts == KnownPoints(f, "Year", target_col)
         IN  Returned(SetColumn(f, target_col,
                 [i \in RowIdx(f) |-> Num(PolynomialFit(pts, f.rows[i]["Year"][1]))]))

\* main_pipeline.impute_with_polynomial(df, target_col): a missing target
\* column is an error; no known value, no change (and no use of Year); else
\* every row gets the fitted value at its Year
main_impute_with_polynomial(f, target_col) ==
    IF target_col \notin f.columns THEN Raise(f)
    ELSE IF \A i \in RowIdx(f) : IsNull(f.rows[i][target_col]) THEN Returned(f)
    ELSE IF "Year" \notin f.columns THEN Raise(f)
    ELSE LET pts == KnownPoints(f, "Year", target_col)
         IN  Returned(SetColumn(f, target_col,
                 [i \in RowIdx(f) |-> Num(PolynomialFit(pts, f.rows[i]["Year"][1]))]))

-----------------------------------------------------------------------------
(* process_diabetes_alcohol.py *)

\* df.loc[df[target_col].isnull(), target_col] = values
FillMissing(f, target_col, values) ==
    Frame(f.columns,
          [i \in RowIdx(f) |->
              [f.rows[i] EXCEPT ![target_col] = IF IsNull(@) THEN values[i] ELSE @]])

\* every row is written, not only the missing cells
da_impute_with_polynomial_Overwrite(f, year_col, target_col) ==
    IF ~({target_col, year_col} \subseteq f.columns) THEN Raise(f)
    ELSE LET pts == KnownPoints(f, year_col, target_col)
         IN  IF PolynomialFitRaises(pts) THEN Raise(f)
             ELSE Returned(SetColumn(f, target_col,
                      [i \in RowIdx(f) |-> Num(PolynomialFit(pts, f.rows[i][year_col][1]))]))

\* impute_with_polynomial(df, year_col, target_col): the fit is made without
\* a test for known values, and only the missing cells are written
da_impute_with_polynomial(f, year_col, target_col) ==
    IF ~({target_col, year_col} \subseteq f.columns) THEN Raise(f)
    ELSE LET pts == KnownPoints(f, year_col, target_col)
         IN  IF PolynomialFitRaises(pts) THEN Raise(f)
             ELSE Returned(FillMissing(f, target_col,
                      [i \in RowIdx(f) |-> Num(PolynomialFit(pts, f.rows[i][year_col][1]))]))

Prevalence == "Prevalence of diabetes (18+ years)"

\* only the missing cells are written
_impute_diabetes_data_KeepKnown(f) ==
    IF ~({Prevalence, "Year"} \subseteq f.columns) THEN Raise(f)
    ELSE LET pts == KnownPoints(f, "Year", Prevalence)
         IN  IF PolynomialFitRaises(pts) THEN Raise(f)
             ELSE Returned(SetColumn(f, Prevalence,
                      [i \in RowIdx(f) |->
                          IF NotNull(f.rows[i][Prevalence]) THEN f.rows[i][Prevalence]
                          ELSE Num(PolynomialFit(pts, f.rows[i]["Year"][1]))]))

\* _impute_diabetes_data(df): the fit is made without a test for known
\* values, and every row is written
_impute_diabetes_data(f) ==
    IF ~({Prevalence, "Year"} \subseteq f.columns) THEN Raise(f)
    ELSE LET pts == KnownPoints(f, "Year", Prevalence)
         IN  IF PolynomialFitRaises(pts) THEN Raise(f)
             ELSE Returned(SetColumn(f, Prevalence,
                      [i \in RowIdx(f) |-> Num(PolynomialFit(pts, f.rows[i]["Year"][1]))]))

\* the position (from 0) of the first row holding the same cell in column c:
\* {v: i for i, v in enumerate(column.unique())}
UniqueIndex(f, c, i) ==
    Cardinality({f.rows[j][c] : j \in {k \in RowIdx(f) : \A h \in 1..k : f.rows[h][c] # f.rows[i][c]}})

\* the integer nearest to the square root of n
ISqrt(n) ==
    LET r == CHOOSE k \in 0..n : k * k <= n /\ n < (k + 1) * (k + 1)
    IN  IF n > r * r + r THEN r + 1 ELSE r

\* StandardScaler.fit: the mean and the scale (the standard deviation, or 1
\* when it is 0) of the values of column c
ScalerMean(rows, c) ==
    LET D == Donors(rows, c)
    IN  RoundDiv(SetSum(D, [j \in D |-> rows[j][c][1]]), Cardinality(D))

ScalerScale(rows, c) ==
    LET D == Donors(rows, c)
        m == ScalerMean(rows, c)
        sd == ISqrt(RoundDiv(SetSum(D, [j \in D |-> (rows[j][c][1] - m) * (rows[j][c][1] - m)]),
                             Cardinality(D)))
    IN  IF sd = 0 THEN 1 ELSE sd

\* StandardScaler.transform of one value: (x - mean) / scale
ScalerTransform(x, mean, scale) == RoundDiv((x - mean) * Precision, scale)

\* StandardScaler.inverse_transform of one score: z * scale + mean
ScalerInverse(z, mean, scale) == RoundDiv(z * scale, Precision) + mean

\* scaler.fit_transform(rows[cols]): missing cells stay missing
ScaledRows(rows, cols) ==
    [i \in 1..Len(rows) |->
        [c \in SeqRange(cols) |->
            IF IsNull(rows[i][c]) \/ Donors(rows, c) = {} THEN NaN
            ELSE Num(ScalerTransform(rows[i][c][1], ScalerMean(rows, c), ScalerScale(rows, c)))]]

alcohol_features == <<"Location_Num", "Code_Num", "Year", "Alcohol_Value">>

\* _impute_alcohol_data(alcohol_data): Location and Code are numbered, the
\* four features standardised, imputed and scaled back, and the whole
\* Alcohol_Value column is replaced by the result; the two number columns
\* are dropped again
_impute_alcohol_data(alcohol_data) ==
    IF ~({"Location", "Code", "Year", "Alcohol_Value"} \subseteq alcohol_data.columns)
       \/ alcohol_data.rows = <<>>
    THEN Raise(alcohol_data)
    ELSE LET numbered ==
                 SetColumn(SetColumn(alcohol_data, "Location_Num",
                               [i \in RowIdx(alcohol_data) |-> Num(UniqueIndex(alcohol_data, "Location", i))]),
                           "Code_Num",
                           [i \in RowIdx(alcohol_data) |-> Num(UniqueIndex(alcohol_data, "Code", i))])
             scaled_data == ScaledRows(numbered.rows, alcohol_features)
             mean == ScalerMean(numbered.rows, "Alcohol_Value")
             scale == ScalerScale(numbered.rows, "Alcohol_Value")
         IN  IF Len(ValidCols(scaled_data, alcohol_features)) # Len(alcohol_features)
             THEN Raise(numbered)
             ELSE Returned(DropColumn(DropColumn(
                      SetColumn(numbered, "Alcohol_Value",
                          [i \in RowIdx(numbered) |->
                              Num(ScalerInverse(KNNImputed(scaled_data, alcohol_features, n_neighbors,
                                                           i, "Alcohol_Value"),
                                                mean, scale))]),
                      "Location_Num"), "Code_Num"))

-----------------------------------------------------------------------------
(* process_activity_obesity_gdp.py *)

activity_columns_to_impute == <<"Activity_Prevalence_Rate", "Obesity_Prevalence_Rate", "GDP">>

\* _merge_and_impute_activity_obesity, lines 43-46: the three columns are
\* imputed from each other and all three replaced by the imputer's output,
\* which must have three columns
knn_fill_activity_obesity(f) ==
    IF ~(SeqRange(activity_columns_to_impute) \subseteq f.columns)
       \/ KNNRaises(f.rows)
       \/ Len(ValidCols(f.rows, activity_columns_to_impute)) # Len(activity_columns_to_impute)
    THEN Raise(f)
    ELSE Returned(Frame(f.columns,
             [i \in RowIdx(f) |->
                 [c \in f.columns |->
                     IF c \in SeqRange(activity_columns_to_impute)
                     THEN Num(KNNImputed(f.rows, activity_columns_to_impute, n_neighbors, i, c))
                     ELSE f.rows[i][c]]]))

-----------------------------------------------------------------------------
(* process_disease_metrics.py *)

\* LinearRegression on PolynomialFeatures(2) of 2 distinct x, a < b: the
\* constant feature is centred away, and the least coefficients through the
\* two means m1, m2 are c1 = l, c2 = l * (a + b) with
\* l * (b - a) * (1 + (a + b)^2) = m2 - m1
TwoPointRegression(pts, x) ==
    LET a == CHOOSE v \in PointXs(pts) : \A w \in PointXs(pts) : v <= w
        b == CHOOSE v \in PointXs(pts) : \A w \in PointXs(pts) : v >= w
        n1 == CountAt(pts, a)
        n2 == CountAt(pts, b)
        s1 == SumAt(pts, a)
        s2 == SumAt(pts, b)
        P == (x - a) * (1 + (a + b) * (x + a))
        Q == (b - a) * (1 + (a + b) * (a + b))
    IN  RoundDiv(s1 * n2 * Q + (s2 * n1 - s1 * n2) * P, n1 * n2 * Q)

\* model.predict of the degree-2 regression fitted on the points
PolynomialRegression(pts, x) ==
    IF Cardinality(PointXs(pts)) = 1 THEN OnePointFit(pts, x)
    ELSE IF Cardinality(PointXs(pts)) = 2 THEN TwoPointRegression(pts, x)
    ELSE QuadraticFit(pts, x)

Max(a, b) == IF a >= b THEN a ELSE b

\* _impute_with_polynomial_fit(df, target_column, ['Year']): a missing target
\* column is an error, no missing cell is a return, a missing predictor
\* column is an error, no training row is an error of the regression; the
\* missing cells get the prediction, not below 0
_impute_with_polynomial_fit(f, target_column, predictor) ==
    IF target_column \notin f.columns THEN Raise(f)
    ELSE IF \A i \in RowIdx(f) : NotNull(f.rows[i][target_column]) THEN Returned(f)
    ELSE IF predictor \notin f.columns THEN Raise(f)
    ELSE IF \A i \in RowIdx(f) : IsNull(f.rows[i][predictor]) THEN Returned(f)
    ELSE LET df_valid == Frame(f.columns, SelectSeq(f.rows, LAMBDA r : NotNull(r[predictor])))
             pts == KnownPoints(df_valid, predictor, target_column)
         IN  IF pts = <<>> \/ \E i \in RowIdx(f) : IsNull(f.rows[i][target_column])
                                                     /\ IsNull(f.rows[i][predictor])
             THEN Raise(f)
             ELSE Returned(FillMissing(f, target_column,
                      [i \in RowIdx(f) |->
                          IF IsNull(f.rows[i][predictor]) THEN NaN
                          ELSE Num(Max(PolynomialRegression(pts, f.rows[i][predictor][1]), 0))]))

-----------------------------------------------------------------------------
(* The imputers, each called on its own on a frame of the shape its caller  *)
(* hands it.                                                                *)

\* years, counted from the first year of the data
Years == 0..2

\* the cells of a metric column
Cells == {NaN, Num(10), Num(55)}

Imputers ==
    {"impute_with_knn", "main_impute_with_polynomial", "da_impute_with_polynomial",
     "_impute_diabetes_data", "_impute_alcohol_data", "knn_fill_activity_obesity",
     "_impute_with_polynomial_fit"}

\* the columns each call is to fill
TargetOf(o) ==
    CASE o = "impute_with_knn" -> {"GDP"}
      [] o = "main_impute_with_polynomial" -> {"GDP"}
      [] o = "da_impute_with_polynomial" -> {"Alcohol_Value"}
      [] o = "_impute_diabetes_data" -> {Prevalence}
      [] o = "_impute_alcohol_data" -> {"Alcohol_Value"}
      [] o = "knn_fill_activity_obesity" -> SeqRange(activity_columns_to_impute)
      [] o = "_impute_with_polynomial_fit" -> {"IncidenceRate"}

\* rows of the merged frame of main_pipeline: any Year, the target any cell
MergedRow(y, c, o) ==
    [Country |-> Num("Japan"), Country_Code |-> Num("JPN"), Year |-> Num(y),
     GDP |-> c, Life_Expectancy |-> o]

\* rows of the frames of process_diabetes_alcohol
DiabetesAlcoholRow(l, y, a, p) ==
    [Location |-> Num(l), Code |-> Num(IF l = "Japan" THEN "JPN" ELSE "KOR"), Year |-> Num(y),
     Alcohol_Value |-> a]
    @@ (Prevalence :> p)

AlcoholRow(l, y, a) ==
    [Location |-> Num(l), Code |-> Num(IF l = "Japan" THEN "JPN" ELSE "KOR"), Year |-> Num(y),
     Alcohol_Value |-> a]

\* rows of the merged frame of process_activity_obesity_gdp
ActivityRow(y, a, o, g) ==
    [Country |-> Num("Japan"), Code |-> Num("JPN"), Year |-> Num(y),
     Activity_Prevalence_Rate |-> a, Obesity_Prevalence_Rate |-> o, GDP |-> g]

\* rows of the combined frame of process_disease_metrics
DiseaseRow(y, c, o) ==
    [Country |-> Num("Japan"), Gender |-> Num(0), Age_Group |-> Num(0), Year |-> Num(y),
     IncidenceRate |-> c, MortalityRate |-> o]

\* the rows a call can find at position i of its frame: the time-trend
\* imputers get any year and target cell; the neighbour imputers get one
\* year per row and any target and feature cells
RowsAt(o, i) ==
    CASE o = "impute_with_knn" ->
             {MergedRow(i - 1, c, x) : c \in Cells, x \in {NaN, Num(7)}}
      [] o = "main_impute_with_polynomial" ->
             {MergedRow(y, c, Num(7)) : y \in Years, c \in Cells}
      [] o = "da_impute_with_polynomial" ->
             {DiabetesAlcoholRow("Japan", y, c, Num(7)) : y \in Years, c \in Cells}
      [] o = "_impute_diabetes_data" ->
             {DiabetesAlcoholRow("Japan", y, Num(7), c) : y \in Years, c \in Cells}
      [] o = "_impute_alcohol_data" ->
             {AlcoholRow(l, i - 1, c) : l \in {"Japan", "South Korea"}, c \in Cells}
      [] o = "knn_fill_activity_obesity" ->
             {ActivityRow(i - 1, a, x, g) : a \in {NaN, Num(10)}, x \in {NaN, Num(7)},
                                            g \in {NaN, Num(55)}}
      [] o = "_impute_with_polynomial_fit" ->
             {DiseaseRow(y, c, Num(7)) : y \in Years, c \in Cells}

\* the frames call o can be handed: up to MaxImputeRows rows
Inputs(o) ==
    LET columns == DOMAIN (CHOOSE r \in RowsAt(o, 1) : TRUE)
        RowSeqs(k) == {rs \in [1..k -> UNION {RowsAt(o, i) : i \in 1..k}] :
                          \A i \in 1..k : rs[i] \in RowsAt(o, i)}
    IN  {Frame(columns, rs) : rs \in UNION {RowSeqs(k) : k \in 0..MaxImputeRows}}

TheTarget == CHOOSE c \in target : TRUE

ImputeInit ==
    /\ pc = "call"
    /\ \E o \in Imputers :
           /\ op = o
           /\ target = TargetOf(o)
           /\ given \in Inputs(o)
           /\ df = given
    /\ frames = <<>>
    /\ merged_df = EmptyFrame
    /\ col_i = 0
    /\ saved = NotSaved
    /\ raised = FALSE
    /\ datasets = <<>>
    /\ cache = <<>>
    /\ arg = <<>>
    /\ result = <<>>

\* imputer o is the one called
Called(o) == pc = "call" /\ op = o

\* the call ends: it returned res.df or raised
Return(res) ==
    /\ df' = res.df
    /\ raised' = res.raises
    /\ pc' = "returned"
    /\ UNCHANGED <<cache, frames, merged_df, col_i, saved, given, op, target, datasets, arg, result>>

Call_impute_with_knn ==
    /\ Called("impute_with_knn")
    /\ \E res \in {impute_with_knn(df, TheTarget)} : Return(res)

Call_main_impute_with_polynomial ==
    /\ Called("main_impute_with_polynomial")
    /\ \E res \in {main_impute_with_polynomial(df, TheTarget)} : Return(res)

Call_da_impute_with_polynomial ==
    /\ Called("da_impute_with_polynomial")
    /\ \E res \in {da_impute_with_polynomial(df, "Year", TheTarget)} : Return(res)

Call_impute_diabetes_data ==
    /\ Called("_impute_diabetes_data")
    /\ \E res \in {_impute_diabetes_data(df)} : Return(res)

Call_impute_alcohol_data ==
    /\ Called("_impute_alcohol_data")
    /\ \E res \in {_impute_alcohol_data(df)} : Return(res)

Call_knn_fill_activity_obesity ==
    /\ Called("knn_fill_activity_obesity")
    /\ \E res \in {knn_fill_activity_obesity(df)} : Return(res)

Call_impute_with_polynomial_fit ==
    /\ Called("_impute_with_polynomial_fit")
    /\ \E res \in {_impute_with_polynomial_fit(df, TheTarget, "Year")} : Return(res)

ImputeNext ==
    \/ Call_impute_with_knn
    \/ Call_main_impute_with_polynomial
    \/ Call_da_impute_with_polynomial
    \/ Call_impute_diabetes_data
    \/ Call_impute_alcohol_data
    \/ Call_knn_fill_activity_obesity
    \/ Call_impute_with_polynomial_fit

SpecImpute == ImputeInit /\ [][ImputeNext]_vars

\* the columns call o reads by name
RequiredOf(o) ==
    CASE o = "impute_with_knn" -> {"GDP"}
      [] o = "main_impute_with_polynomial" -> {"GDP", "Year"}
      [] o = "da_impute_with_polynomial" -> {"Alcohol_Value", "Year"}
      [] o = "_impute_diabetes_data" -> {Prevalence, "Year"}
      [] o = "_impute_alcohol_data" -> {"Location", "Code", "Year", "Alcohol_Value"}
      [] o = "knn_fill_activity_obesity" -> SeqRange(activity_columns_to_impute)
      [] o = "_impute_with_polynomial_fit" -> {"IncidenceRate", "Year"}

\* the same calls on a frame that lacks one of the columns the call reads
SchemaInit ==
    /\ pc = "call"
    /\ \E o \in Imputers :
           /\ op = o
           /\ target = TargetOf(o)
           /\ given \in {DropColumn(f, c) : f \in Inputs(o), c \in RequiredOf(o)}
           /\ df = given
    /\ frames = <<>>
    /\ merged_df = EmptyFrame
    /\ col_i = 0
    /\ saved = NotSaved
    /\ raised = FALSE
    /\ datasets = <<>>
    /\ cache = <<>>
    /\ arg = <<>>
    /\ result = <<>>

SpecSchema == SchemaInit /\ [][ImputeNext]_vars

-----------------------------------------------------------------------------
(* The resolvers: get_country_code of main_pipeline.py and                  *)
(* process_disease_metrics.py, get_region of app.py.  A string is the       *)
(* sequence of its characters; the alphabet of the names is two letters in  *)
(* both cases and the space.                                                *)

NameChars == {"a", "A", "b", "B", " "}

IsCased(c) == c \in {"a", "A", "b", "B"}

Lower(c) == IF c = "A" THEN "a" ELSE IF c = "B" THEN "b" ELSE c

Upper(c) == IF c = "a" THEN "A" ELSE IF c = "b" THEN "B" ELSE c

\* str.lower()
LowerStr(s) == [i \in 1..Len(s) |-> Lower(s[i])]

RECURSIVE LStrip(_)
LStrip(s) == IF s # <<>> /\ Head(s) = " " THEN LStrip(Tail(s)) ELSE s

RECURSIVE RStrip(_)
RStrip(s) == IF s # <<>> /\ s[Len(s)] = " " THEN RStrip(SubSeq(s, 1, Len(s) - 1)) ELSE s

\* str.strip()
Strip(s) == RStrip(LStrip(s))

\* str.title(): a cased character is put in upper case when it follows an
\* uncased one (or nothing), in lower case when it follows a cased one
Title(s) ==
    [i \in 1..Len(s) |->
        IF ~IsCased(s[i]) THEN s[i]
        ELSE IF i > 1 /\ IsCased(s[i - 1]) THEN Lower(s[i]) ELSE Upper(s[i])]

\* pycountry.countries, and for each alpha-2 code the continent code that
\* pycountry_convert has for it (none for BB)
Countries ==
    { [name |-> <<"A", "b", "a">>, alpha_2 |-> <<"A", "B">>, alpha_3 |-> <<"A", "B", "A">>],
      [name |-> <<"B", " ", "a">>, alpha_2 |-> <<"B", "A">>, alpha_3 |-> <<"B", "A", "A">>],
      [name |-> <<"B", "a", "b">>, alpha_2 |-> <<"B", "B">>, alpha_3 |-> <<"B", "A", "B">>],
      [name |-> <<"A", " ", "b">>, alpha_2 |-> <<"A", "A">>, alpha_3 |-> <<"A", "A", "B">>] }

\* pycountry.countries.lookup(value): the country with a field equal to the
\* value, case ignored; LookupError when there is none
LookupMatches(value) ==
    {c \in Countries : \E field \in {"name", "alpha_2", "alpha_3"} :
                           LowerStr(c[field]) = LowerStr(value)}

LookupRaises(value) == LookupMatches(value) = {}

Lookup(value) == CHOOSE c \in LookupMatches(value) : TRUE

\* dictionary.country_code_mapping: names the registry does not have, and
\* names whose registry code is replaced
country_code_mapping ==
    (<<"B", "b">> :> <<"B", "B", "A">>) @@ (<<"B", "a">> :> <<"B", "B", "B">>)

\* dictionary.country_code_dict
country_code_dict ==
    (<<"B", "b">> :> <<"B", "B", "A">>) @@ (<<"B", "a">> :> <<"B", "B", "B">>)

\* the registry is asked before the table
CodeFrom_RegistryFirst(table, country_name_normalized) ==
    IF ~LookupRaises(country_name_normalized) THEN Num(Lookup(country_name_normalized).alpha_3)
    ELSE IF country_name_normalized \in DOMAIN table THEN Num(table[country_name_normalized])
    ELSE NaN

\* the code found for a normalized name: the table's, else the registry's,
\* else None
CodeFrom(table, country_name_normalized) ==
    IF country_name_normalized \in DOMAIN table THEN Num(table[country_name_normalized])
    ELSE IF LookupRaises(country_name_normalized) THEN NaN
    ELSE Num(Lookup(country_name_normalized).alpha_3)

\* the normalisation is left out
get_country_code_Raw(country_name) == CodeFrom(country_code_mapping, country_name)

\* main_pipeline.get_country_code(country_name)
get_country_code(country_name) == CodeFrom(country_code_mapping, Title(Strip(country_name)))

\* process_disease_metrics.get_country_code(country_name)
dm_get_country_code(country_name) == CodeFrom(country_code_dict, Title(Strip(country_name)))

\* app.py
continent_map ==
    [NA |-> "North America", SA |-> "South America", EU |-> "Europe",
     AS |-> "Asia", OC |-> "Oceania", AF |-> "Africa"]

manual_region_mapping ==
    (<<"X", "K", "X">> :> "Europe")
    @@ (<<"O", "W", "I", "D", "_", "K", "O", "S">> :> "Europe")
    @@ (<<"S", "X", "M">> :> "North America")
    @@ (<<"T", "L", "S">> :> "Asia")

None == <<"None">>

\* alpha3_to_alpha2(alpha3_code): pycountry.countries.get(alpha_3=...) is the
\* country or None
alpha3_to_alpha2(alpha3_code) ==
    LET found == {c \in Countries : c.alpha_3 = alpha3_code}
    IN  IF found = {} THEN None ELSE (CHOOSE c \in found : TRUE).alpha_2

\* pycountry_convert's table of the continent code of each alpha-2 code; the
\* continent AN (Antarctica) is not one of continent_map
COUNTRY_ALPHA2_TO_CONTINENT_CODE ==
    (<<"A", "B">> :> "NA") @@ (<<"B", "A">> :> "AS") @@ (<<"A", "A">> :> "AN")

\* pc.country_alpha2_to_continent_code raises KeyError on a code that is not
\* in its table
ContinentCodeRaises(alpha2) == alpha2 \notin DOMAIN COUNTRY_ALPHA2_TO_CONTINENT_CODE

\* get_region(country_code): what it returns, or that it raises
get_region(country_code) ==
    IF country_code \in DOMAIN manual_region_mapping
    THEN [raises |-> FALSE, value |-> manual_region_mapping[country_code]]
    ELSE LET alpha2 == IF Len(country_code) = 3 THEN alpha3_to_alpha2(country_code)
                       ELSE country_code
         IN  IF ContinentCodeRaises(alpha2) THEN [raises |-> TRUE, value |-> None]
             ELSE LET continent == COUNTRY_ALPHA2_TO_CONTINENT_CODE[alpha2]
                  IN  [raises |-> FALSE,
                       value |-> IF continent \in DOMAIN continent_map
                                 THEN continent_map[continent] ELSE "Unknown Region"]

\* the names handed to get_country_code: every string of up to MaxNameLen
\* characters
Names == UNION {[1..k -> NameChars] : k \in 0..MaxNameLen}

\* the codes handed to get_region: the manual ones and every string of 2 or
\* 3 upper-case letters
Codes == DOMAIN manual_region_mapping \cup [1..2 -> {"A", "B"}] \cup [1..3 -> {"A", "B"}]

Resolvers == {"get_country_code", "dm_get_country_code", "get_region"}

ResolveInit ==
    /\ pc = "call"
    /\ op \in Resolvers
    /\ arg \in IF op = "get_region" THEN Codes ELSE Names
    /\ result = <<>>
    /\ raised = FALSE
    /\ frames = <<>>
    /\ merged_df = EmptyFrame
    /\ col_i = 0
    /\ saved = NotSaved
    /\ given = EmptyFrame
    /\ df = EmptyFrame
    /\ target = {}
    /\ datasets = <<>>
    /\ cache = <<>>

\* the call ends with a value or an exception
Answer(value, raises) ==
    /\ result' = value
    /\ raised' = raises
    /\ pc' = "returned"
    /\ UNCHANGED <<cache, frames, merged_df, col_i, saved, given, df, op, target, datasets, arg>>

Call_get_country_code ==
    /\ Called("get_country_code")
    /\ Answer(get_country_code(arg), FALSE)

Call_dm_get_country_code ==
    /\ Called("dm_get_country_code")
    /\ Answer(dm_get_country_code(arg), FALSE)

Call_get_region ==
    /\ Called("get_region")
    /\ \E res \in {get_region(arg)} : Answer(res.value, res.raises)

ResolveNext ==
    \/ Call_get_country_code
    \/ Call_dm_get_country_code
    \/ Call_get_region

SpecResolve == ResolveInit /\ [][ResolveNext]_vars

-----------------------------------------------------------------------------
(* The source cleaners. *)

\* DataFrame.merge(right, on=on, how='left'): the rows of the left side in
\* their order, one row per matching pair
MergeLeft_Outer(left, right, on) == MergeOuter(left, right, on)

MergeLeft(left, right, on) ==
    LET columns == left.columns \cup right.columns
        parts == [i \in RowIdx(left) |-> LeftPart(left, right, on, columns, i)]
    IN  Frame(columns, Flatten(parts))

\* df[mask]: the rows that pass the test, in their order
FilterRows(f, Test(_)) == Frame(f.columns, SelectSeq(f.rows, Test))

\* DataFrame.dropna(subset=[c])
Dropna(f, c) == FilterRows(f, LAMBDA r : NotNull(r[c]))

\* DataFrame.drop_duplicates(keep='first'): a row equal in every column to
\* an earlier row is dropped
DropDuplicates(f) ==
    LET first == {i \in RowIdx(f) : \A j \in 1..(i - 1) : f.rows[j] # f.rows[i]}
        Pick(k) == CHOOSE i \in first : Cardinality({j \in first : j < i}) = k - 1
    IN  Frame(f.columns, [k \in 1..Cardinality(first) |-> f.rows[Pick(k)]])

\* process_activity_obesity_gdp.clean_and_transform(df, year_column,
\* rate_column): astype(int) raises on a missing year
clean_and_transform(f, year_column, rate_column) ==
    IF ~({year_column, rate_column} \subseteq f.columns)
       \/ \E i \in RowIdx(f) : IsNull(f.rows[i][year_column])
    THEN Raise(f)
    ELSE Returned(DropDuplicates(f))

\* _merge_and_impute_activity_obesity(df1, df2, df3)
_merge_and_impute_activity_obesity(df1, df2, df3) ==
    LET on == <<"Country", "Code", "Year">>
        a == Rename(df1, [Prevalence_Rate |-> "Activity_Prevalence_Rate"])
        b == Rename(df2, [Prevalence_Rate |-> "Obesity_Prevalence_Rate"])
    IN  IF MergeRaises(a, b, on) \/ MergeRaises(a, df3, on) THEN Raise(a)
        ELSE knn_fill_activity_obesity(
                 FilterRows(MergeOuter(MergeOuter(a, b, on), df3, on),
                            LAMBDA r : r["Country"] # Num("World")))

\* process_activity_obesity_gdp(), on the three tables its files hold
process_activity_obesity_gdp(activity, obesity, gdp) ==
    LET activity_prevalence == clean_and_transform(activity, "Year", "Prevalence_Rate")
        obesity_prevalence == clean_and_transform(obesity, "Year", "Prevalence_Rate")
        gdp_data == Rename(gdp, [Entity |-> "Country"]
                                @@ ("GDP per capita, PPP (constant 2017 international $)" :> "GDP"))
    IN  IF activity_prevalence.raises THEN activity_prevalence
        ELSE IF obesity_prevalence.raises THEN obesity_prevalence
        ELSE IF "Code" \notin gdp_data.columns THEN Raise(gdp_data)
        ELSE _merge_and_impute_activity_obesity(activity_prevalence.df, obesity_prevalence.df,
                                                Dropna(gdp_data, "Code"))

\* the characters of the country names of the disease tables
Spelling ==
    (" bb" :> <<" ", "b", "b">>) @@ ("bb" :> <<"b", "b">>)
    @@ ("Aba" :> <<"A", "b", "a">>) @@ ("Aaa" :> <<"A", "a", "a">>)

\* the name with the given characters
Spelled(chars) == CHOOSE name \in DOMAIN Spelling : Spelling[name] = chars

\* the characters of the codes of these names
CodeSpelling ==
    ("ABA" :> <<"A", "B", "A">>) @@ ("BBA" :> <<"B", "B", "A">>) @@ ("BBB" :> <<"B", "B", "B">>)

\* the cell with the code of the given characters, or the missing cell
SpelledCode(cell) ==
    IF IsNull(cell) THEN NaN
    ELSE Num(CHOOSE code \in DOMAIN CodeSpelling : CodeSpelling[code] = cell[1])

\* df[columns]
Select(f, columns) ==
    Frame(columns, [i \in RowIdx(f) |-> [c \in columns |-> f.rows[i][c]]])

\* LabelEncoder().fit_transform(df[c].astype(str)): the position of the
\* value among the sorted distinct values of the column ('nan' is last)
encode_categorical_column(f, c) ==
    SetColumn(f, c,
        [i \in RowIdx(f) |->
            Num(Cardinality({f.rows[j][c] : j \in {k \in RowIdx(f) :
                                CellLess(c, f.rows[k][c], f.rows[i][c])}}))])

encode_categorical_columns(f, columns) ==
    IF columns = <<>> THEN f
    ELSE encode_categorical_column(encode_categorical_column(f, columns[1]), columns[2])

disease_key == <<"Country", "Year", "Gender", "Age_Group">>

\* lines 79-89: one source table renamed and cut to its five columns
ProcessedDisease(d, rate_col) ==
    LET renamed == Rename(d, [location_name |-> "Country", sex_name |-> "Gender",
                              age_name |-> "Age_Group", year |-> "Year", val |-> rate_col])
        columns == SeqRange(disease_key) \cup {rate_col}
    IN  IF columns \subseteq renamed.columns THEN Returned(Select(renamed, columns))
        ELSE Raise(renamed)

\* lines 91-97: the two outer merges
MergeDisease(incidence, mortality, prevalence) ==
    MergeOuter(MergeOuter(incidence, mortality, disease_key), prevalence, disease_key)

RECURSIVE ImputeRates(_, _)
\* lines 102-103: the loop over the rates, left at the first error
ImputeRates(f, rates) ==
    IF rates = <<>> THEN Returned(f)
    ELSE LET res == _impute_with_polynomial_fit(f, Head(rates), "Year")
         IN  IF res.raises THEN res ELSE ImputeRates(res.df, Tail(rates))

\* lines 105-107: the names are trimmed and every row gets the code
\* get_country_code finds, or None
AddCountryCodes(f) ==
    LET trimmed(i) == Strip(Spelling[f.rows[i]["Country"][1]])
    IN  Frame(f.columns \cup {"Country_Code"},
              [i \in RowIdx(f) |->
                  [c \in f.columns \cup {"Country_Code"} |->
                      IF c = "Country" THEN Num(Spelled(trimmed(i)))
                      ELSE IF c = "Country_Code" THEN SpelledCode(dm_get_country_code(trimmed(i)))
                      ELSE f.rows[i][c]]])

\* process_disease_metrics(incidence_data, mortality_data, prevalence_data)
process_disease_metrics(incidence_data, mortality_data, prevalence_data) ==
    LET incidence == ProcessedDisease(incidence_data, "IncidenceRate")
        mortality == ProcessedDisease(mortality_data, "MortalityRate")
        prevalence == ProcessedDisease(prevalence_data, "PrevalenceRate")
    IN  IF incidence.raises THEN incidence
        ELSE IF mortality.raises THEN mortality
        ELSE IF prevalence.raises THEN prevalence
        ELSE LET df_combined ==
                     encode_categorical_columns(
                         MergeDisease(incidence.df, mortality.df, prevalence.df),
                         <<"Gender", "Age_Group">>)
                 imputed == ImputeRates(df_combined,
                                        <<"IncidenceRate", "PrevalenceRate", "MortalityRate">>)
             IN  IF imputed.raises THEN imputed ELSE Returned(AddCountryCodes(imputed.df))

\* Series.unique(): the distinct cells of column c, in the order they appear
Unique(f, c) ==
    LET first == {i \in RowIdx(f) : \A j \in 1..(i - 1) : f.rows[j][c] # f.rows[i][c]}
        Pick(k) == CHOOSE i \in first : Cardinality({j \in first : j < i}) = k - 1
    IN  [k \in 1..Cardinality(first) |-> f.rows[Pick(k)][c]]

\* list(range(1960, 1990))
years == [k \in 1..30 |-> 1959 + k]

\* the placeholder rows: for every country, in the order of Unique, and every
\* year of years a row with the country, the year, the code of the
\* country's first row and every other column missing
PlaceholderRows(f, country_col, code_col) ==
    LET countries == Unique(f, country_col)
        code(country) == (CHOOSE i \in RowIdx(f) :
                             /\ f.rows[i][country_col] = country
                             /\ \A j \in 1..(i - 1) : f.rows[j][country_col] # country)
        n == Len(years)
    IN  [k \in 1..(Len(countries) * n) |->
            LET country == countries[((k - 1) \div n) + 1]
                year == years[((k - 1) % n) + 1]
            IN  [c \in f.columns |->
                    IF c = country_col THEN country
                    ELSE IF c = "Year" THEN Num(year)
                    ELSE IF c = code_col THEN f.rows[code(country)][code_col]
                    ELSE NaN]]

\* DataFrame.sort_values(by=by).reset_index(drop=True): the rows in the
\* order of their keys, rows of one key in the order they had
SortValues(f, by) ==
    LET n == Len(f.rows)
        pos == [i \in 1..n |->
                   Cardinality({j \in 1..n : \/ KeyLess(by, f.rows[j], f.rows[i])
                                             \/ (SameKey(by, f.rows[j], f.rows[i]) /\ j < i)})]
    IN  Frame(f.columns, [k \in 1..n |-> f.rows[CHOOSE i \in 1..n : pos[i] = k - 1]])

\* process_diabetes_alcohol._adding_missing_years(df): the placeholder rows
\* are appended and the frame sorted by Location and Year; the code of a
\* country with a missing name cannot be looked up
_adding_missing_years(f) ==
    IF ~({"Location", "Year", "Code"} \subseteq f.columns)
       \/ \E i \in RowIdx(f) : IsNull(f.rows[i]["Location"])
    THEN Raise(f)
    ELSE Returned(SortValues(Frame(f.columns, f.rows \o PlaceholderRows(f, "Location", "Code")),
                             <<"Location", "Year">>))

\* main_pipeline.add_missing_years(df): the placeholder rows alone are
\* returned; of a frame without rows nothing is left, not even the columns
add_missing_years(f) ==
    IF ~({"Country", "Country_Code"} \subseteq f.columns)
       \/ \E i \in RowIdx(f) : IsNull(f.rows[i]["Country"])
    THEN Raise(f)
    ELSE IF f.rows = <<>> THEN Returned(EmptyFrame)
    ELSE Returned(Frame(f.columns \cup {"Year"},
             [k \in 1..(Len(Unique(f, "Country")) * Len(years)) |->
                 [c \in f.columns \cup {"Year"} |->
                     IF c = "Year" THEN Num(years[((k - 1) % Len(years)) + 1])
                     ELSE PlaceholderRows(f, "Country", "Country_Code")[k][c]]]))

\* main_pipeline.prep_gapminder_data(gp_df, iso_df): the code of the ISO
\* table for the country of the row, else the override table's code for the
\* name as it is written, else missing
prep_gapminder_data(gp_df, iso_df) ==
    LET iso == Rename(iso_df, ("English short name lower case" :> "country")
                              @@ ("Alpha-3 code" :> "Country_Code"))
    IN  IF ~({"country", "Country_Code"} \subseteq iso.columns) \/ "country" \notin gp_df.columns
        THEN Raise(gp_df)
        ELSE LET merged == MergeLeft(gp_df, Select(iso, {"country", "Country_Code"}), <<"country">>)
                 filled == Frame(merged.columns,
                               [i \in RowIdx(merged) |->
                                   [merged.rows[i] EXCEPT !["Country_Code"] =
                                       IF NotNull(@) \/ IsNull(merged.rows[i]["country"]) THEN @
                                       ELSE MapCell(country_code_mapping,
                                                    Num(Spelling[merged.rows[i]["country"][1]]))]])
             IN  Returned(Rename(filled, [year |-> "Year", gdpPercap |-> "GDP",
                                          lifeExp |-> "Life_Expectancy"]))

-----------------------------------------------------------------------------
(* process_overweight_health.py *)

\* _clean_overweight_data(df), on the table under the header rows
_clean_overweight_data(f) ==
    LET columns == {"SpatialDimValueCode", "Location", "Period", "FactValueNumeric"}
    IN  IF ~(columns \subseteq f.columns) THEN Raise(f)
        ELSE Returned(Rename(Select(f, columns),
                 [SpatialDimValueCode |-> "Country_code", Location |-> "Country",
                  Period |-> "Year", FactValueNumeric |-> "Overweight_Prevalence"]))

years_to_drop == {1999, 2022, 2023}

\* three of the territories of the list
countries_to_remove == {"Aruba", "Kosovo", "Somalia"}

\* the alpha-3 codes of pycountry among the codes of the tables
valid_country_codes == {"JPN", "KOR", "USA"}

\* df.groupby(key)[c].ffill(): a missing cell takes the last value above it
\* in the rows of the same key
GroupFfill(f, key, c) ==
    SetColumn(f, c,
        [i \in RowIdx(f) |->
            LET above == {j \in 1..(i - 1) : f.rows[j][key] = f.rows[i][key] /\ NotNull(f.rows[j][c])}
            IN  IF NotNull(f.rows[i][c]) \/ IsNull(f.rows[i][key]) \/ above = {} THEN f.rows[i][c]
                ELSE f.rows[CHOOSE j \in above : \A h \in above : h <= j][c]])

\* df.groupby(key)[c].bfill(): the first value below it
GroupBfill(f, key, c) ==
    SetColumn(f, c,
        [i \in RowIdx(f) |->
            LET below == {j \in (i + 1)..Len(f.rows) :
                             f.rows[j][key] = f.rows[i][key] /\ NotNull(f.rows[j][c])}
            IN  IF NotNull(f.rows[i][c]) \/ IsNull(f.rows[i][key]) \/ below = {} THEN f.rows[i][c]
                ELSE f.rows[CHOOSE j \in below : \A h \in below : h >= j][c]])

\* _clean_world_health_data(df); the five columns kept are the first five of
\* the file
_clean_world_health_data(f) ==
    LET columns == {"country", "country_code", "year", "health_exp", "life_expect"}
    IN  IF ~(columns \subseteq f.columns) THEN Raise(f)
        ELSE LET kept == FilterRows(f, LAMBDA r :
                             /\ ~(NotNull(r["year"]) /\ r["year"][1] \in years_to_drop)
                             /\ ~(NotNull(r["country"]) /\ r["country"][1] \in countries_to_remove)
                             /\ NotNull(r["country_code"])
                             /\ r["country_code"][1] \in valid_country_codes)
                 health == GroupBfill(GroupFfill(kept, "country_code", "health_exp"),
                                      "country_code", "health_exp")
                 life == GroupBfill(GroupFfill(health, "country_code", "life_expect"),
                                    "country_code", "life_expect")
             IN  Returned(Rename(Select(life, columns),
                     [country_code |-> "Country_code", country |-> "Country", year |-> "Year",
                      health_exp |-> "Health_Expenditure", life_expect |-> "Life_Expectancy"]))

\* _process_supplemental_life_expectancy(df)
_process_supplemental_life_expectancy(f) ==
    LET columns == {"SpatialDimValueCode", "Dim1ValueCode", "FactValueNumeric", "Period"}
    IN  IF ~(columns \subseteq f.columns) THEN Raise(f)
        ELSE Returned(Rename(
                 Select(FilterRows(f, LAMBDA r : r["Dim1ValueCode"] = Num("SEX_BTSX")),
                        columns \ {"Dim1ValueCode"}),
                 [SpatialDimValueCode |-> "Country_code", Period |-> "Year",
                  FactValueNumeric |-> "Imputed_Life_Expectancy"]))

\* Series.interpolate(method='linear') on column c: a missing cell between
\* two values of the column lies on the line through them, the rows taken as
\* equally spaced; after the last value it repeats that value; before the
\* first value it stays missing
Interpolate(f, c) ==
    SetColumn(f, c,
        [i \in RowIdx(f) |->
            LET before == {j \in 1..(i - 1) : NotNull(f.rows[j][c])}
                after == {j \in (i + 1)..Len(f.rows) : NotNull(f.rows[j][c])}
                p == CHOOSE j \in before : \A h \in before : h <= j
                q == CHOOSE j \in after : \A h \in after : h >= j
            IN  IF NotNull(f.rows[i][c]) \/ before = {} THEN f.rows[i][c]
                ELSE IF after = {} THEN f.rows[p][c]
                ELSE Num(f.rows[p][c][1]
                         + RoundDiv((f.rows[q][c][1] - f.rows[p][c][1]) * (i - p), q - p))])

\* lines 95-101: a missing Life_Expectancy takes the value of the first row
\* of the supplement with the same code and year and a value
FillFromSupplement(f, life_expectancy_df) ==
    SetColumn(f, "Life_Expectancy",
        [i \in RowIdx(f) |->
            LET found == {k \in RowIdx(life_expectancy_df) :
                             /\ NotNull(f.rows[i]["Country_code"])
                             /\ life_expectancy_df.rows[k]["Country_code"] = f.rows[i]["Country_code"]
                             /\ life_expectancy_df.rows[k]["Year"] = f.rows[i]["Year"]
                             /\ NotNull(life_expectancy_df.rows[k]["Imputed_Life_Expectancy"])}
            IN  IF NotNull(f.rows[i]["Life_Expectancy"]) \/ found = {}
                THEN f.rows[i]["Life_Expectancy"]
                ELSE life_expectancy_df.rows[CHOOSE k \in found : \A h \in found : k <= h]
                                            ["Imputed_Life_Expectancy"]])

\* _merge_and_clean_datasets(overweight_df, world_df, life_expectancy_df)
_merge_and_clean_datasets(overweight_df, world_df, life_expectancy_df) ==
    LET on == <<"Country_code", "Country", "Year">>
    IN  IF "Year" \notin overweight_df.columns
           \/ (\E i \in RowIdx(overweight_df) : IsNull(overweight_df.rows[i]["Year"]))
           \/ MergeRaises(overweight_df, world_df, on)
           \/ ~({"Country_code", "Year", "Imputed_Life_Expectancy"} \subseteq life_expectancy_df.columns)
           \/ ~({"Life_Expectancy", "Health_Expenditure"} \subseteq world_df.columns)
        THEN Raise(overweight_df)
        ELSE Returned(Interpolate(Interpolate(
                 FillFromSupplement(MergeLeft(overweight_df, world_df, on), life_expectancy_df),
                 "Life_Expectancy"), "Health_Expenditure"))

\* process_overweight_health(overweight_data, world_health_data,
\* life_expectancy_data)
process_overweight_health(overweight_data, world_health_data, life_expectancy_data) ==
    LET cleaned_overweight == _clean_overweight_data(overweight_data)
        cleaned_world_health == _clean_world_health_data(world_health_data)
        processed_life_expectancy == _process_supplemental_life_expectancy(life_expectancy_data)
    IN  IF cleaned_overweight.raises THEN cleaned_overweight
        ELSE IF cleaned_world_health.raises THEN cleaned_world_health
        ELSE IF processed_life_expectancy.raises THEN processed_life_expectancy
        ELSE _merge_and_clean_datasets(cleaned_overweight.df, cleaned_world_health.df,
                                       processed_life_expectancy.df)

-----------------------------------------------------------------------------
(* process_diabetes_alcohol.py, the whole cleaner *)

diabetes_renames ==
    ("Country/Region/World" :> "Location") @@ ("ISO" :> "Code") @@ ("Sex" :> "Gender")

diabetes_gender_map == ("Men" :> 0) @@ ("Women" :> 1)

columns_to_drop ==
    { "Age",
      "Prevalence of diabetes (18+ years) lower 95% uncertainty interval",
      "Prevalence of diabetes (18+ years) upper 95% uncertainty interval",
      "Proportion of people with diabetes who were treated (30+ years)",
      "Proportion of people with diabetes who were treated (30+ years) lower 95% uncertainty interval",
      "Proportion of people with diabetes who were treated (30+ years) upper 95% uncertainty interval" }

\* _diabetes_column_processing(df): a frame without Sex, or without one of
\* the columns to drop, is an error
_diabetes_column_processing(f) ==
    LET renamed == Rename(f, diabetes_renames)
    IN  IF "Gender" \notin renamed.columns \/ ~(columns_to_drop \subseteq renamed.columns)
        THEN Raise(f)
        ELSE Returned(Select(MapColumn(renamed, "Gender", diabetes_gender_map),
                             renamed.columns \ columns_to_drop))

\* the labels of the year columns of the alcohol table, in the order of the
\* table, and the integer each is read as; int() of another label raises
YearLabels == <<"1985", "1986", "Notes">>

IntOf == ("1985" :> 1985) @@ ("1986" :> 1986)

\* DataFrame.melt(id_vars, var_name, value_name): one row per other column
\* and row, column after column
Melt(f, id_vars, var_name, value_name) ==
    LET value_vars == SelectSeq(YearLabels, LAMBDA c : c \in f.columns)
        long(k, i) == [c \in id_vars \cup {var_name, value_name} |->
                          IF c = var_name THEN Num(value_vars[k])
                          ELSE IF c = value_name THEN f.rows[i][value_vars[k]]
                          ELSE f.rows[i][c]]
    IN  Frame(id_vars \cup {var_name, value_name},
              Flatten([k \in 1..Len(value_vars) |-> [i \in RowIdx(f) |-> long(k, i)]]))

\* _convert_year_to_int(df)
_convert_year_to_int(f) ==
    IF \E i \in RowIdx(f) : IsNull(f.rows[i]["Year"]) \/ f.rows[i]["Year"][1] \notin DOMAIN IntOf
    THEN Raise(f)
    ELSE Returned(MapColumn(f, "Year", IntOf))

\* dictionary.wrong_countries: the entries of the alcohol table that are no
\* countries
wrong_countries == {"World"}

\* dictionary.region_mapping: the region of a country, in the order of the
\* dictionary
region_mapping == << <<"South Korea", "Asia">> >>

\* _remove_wrong_countries(df)
_remove_wrong_countries(f) ==
    FilterRows(f, LAMBDA r : ~(NotNull(r["Location"]) /\ r["Location"][1] \in wrong_countries))

\* the value of the region in a year (regional_values.get(year)): missing
\* when the region has no row of that year; the tables have one row of a
\* region in a year at most
RegionalValue(f, region, year) ==
    LET at == {i \in RowIdx(f) : f.rows[i]["Location"] = Num(region) /\ f.rows[i]["Year"] = year}
    IN  IF at = {} THEN NaN
        ELSE f.rows[CHOOSE i \in at : \A j \in at : i <= j]["Alcohol_Value"]

\* missing_years: the years in which a row of the country has no value
MissingYears(f, country) ==
    {f.rows[i]["Year"] : i \in {k \in RowIdx(f) : /\ f.rows[k]["Location"] = Num(country)
                                                 /\ IsNull(f.rows[k]["Alcohol_Value"])
                                                 /\ NotNull(f.rows[k]["Year"])}}

\* one turn of the loop of _fill_missing_values_with_regional: every row of
\* the country in one of its missing years gets the value of the region in
\* that year (the mask of the assignment is the country and the year)
FillFromRegion(f, country, region) ==
    Frame(f.columns,
          [i \in RowIdx(f) |->
              IF f.rows[i]["Location"] = Num(country) /\ f.rows[i]["Year"] \in MissingYears(f, country)
              THEN [f.rows[i] EXCEPT !["Alcohol_Value"] = RegionalValue(f, region, f.rows[i]["Year"])]
              ELSE f.rows[i]])

RECURSIVE FillFromRegions(_, _)
FillFromRegions(f, mapping) ==
    IF mapping = <<>> THEN f
    ELSE FillFromRegions(FillFromRegion(f, mapping[1][1], mapping[1][2]), Tail(mapping))

\* _fill_missing_values_with_regional(df, region_mapping)
_fill_missing_values_with_regional(f, mapping) == FillFromRegions(f, mapping)

\* lines 161-165: the alcohol table is made long and cleaned
ProcessAlcohol(alcohol_data) ==
    IF ~({"Location", "Code"} \subseteq alcohol_data.columns) THEN Raise(alcohol_data)
    ELSE LET melted == Melt(alcohol_data, {"Location", "Code"}, "Year", "Alcohol_Value")
             converted == _convert_year_to_int(melted)
         IN  IF converted.raises THEN converted
             ELSE _impute_alcohol_data(
                      _fill_missing_values_with_regional(_remove_wrong_countries(converted.df),
                                                         region_mapping))

\* lines 156-158: the diabetes table is renamed, extended and imputed
ProcessDiabetes(diabetes_data) ==
    LET processed == _diabetes_column_processing(diabetes_data)
    IN  IF processed.raises THEN processed
        ELSE LET extended == _adding_missing_years(processed.df)
             IN  IF extended.raises THEN extended ELSE _impute_diabetes_data(extended.df)

\* process_diabetes_alcohol(diabetes_data, alcohol_data)
process_diabetes_alcohol(diabetes_data, alcohol_data) ==
    LET diabetes_processed == ProcessDiabetes(diabetes_data)
    IN  IF diabetes_processed.raises THEN diabetes_processed
        ELSE LET alcohol_processed == ProcessAlcohol(alcohol_data)
             IN  IF alcohol_processed.raises THEN alcohol_processed
                 ELSE LET merged_data == Merge(diabetes_processed.df, alcohol_processed.df,
                                               <<"Location", "Year", "Code">>)
                      IN  IF merged_data.raises THEN merged_data
                          ELSE LET filled == da_impute_with_polynomial(merged_data.df, "Year",
                                                                        "Alcohol_Value")
                               IN  IF filled.raises THEN filled
                                   ELSE da_impute_with_polynomial(filled.df, "Year", Prevalence)

-----------------------------------------------------------------------------
(* The cleaners and their steps, each called on its own on the tables of   *)
(* its source files.                                                        *)

\* the frames of up to n rows drawn from R
FramesUpTo(R, n) ==
    LET columns == DOMAIN (CHOOSE r \in R : TRUE)
    IN  {Frame(columns, rows) : rows \in SeqsUpTo(R, n)}

WhoRow(country, code, year, rate) ==
    [Country |-> Num(country), Code |-> code, Year |-> Num(year), Prevalence_Rate |-> rate]

\* two rows of one key with different rates, and a row without a code
ActivityRows ==
    { WhoRow("Japan", Num("JPN"), 2000, Num(5)), WhoRow("Japan", Num("JPN"), 2000, Num(6)),
      WhoRow("South Korea", NaN, 2000, Num(7)) }

ObesityRows == { WhoRow("Japan", Num("JPN"), 2000, Num(8)), WhoRow("World", NaN, 2000, NaN) }

WorldBankRows ==
    { [Entity |-> Num("Japan"), Code |-> Num("JPN"), Year |-> Num(2000)]
          @@ ("GDP per capita, PPP (constant 2017 international $)" :> Num(50)),
      [Entity |-> Num("World"), Code |-> NaN, Year |-> Num(2000)]
          @@ ("GDP per capita, PPP (constant 2017 international $)" :> Num(9)) }

GbdRow(location, sex, year, v) ==
    [location_name |-> Num(location), sex_name |-> Num(sex), age_name |-> Num("25+ years"),
     year |-> Num(year), val |-> v, measure_name |-> Num("Rate")]

\* two rows of one key with different values, a name with a leading space
\* that the override table knows, and a name no source knows
IncidenceRows ==
    { GbdRow("Aba", "Male", 0, Num(3)), GbdRow("Aba", "Male", 0, Num(4)),
      GbdRow(" bb", "Female", 1, NaN) }

MortalityRows == { GbdRow("Aba", "Male", 0, Num(2)), GbdRow("Aaa", "Male", 1, Num(1)) }

PrevalenceRows == { GbdRow("Aba", "Male", 0, Num(9)), GbdRow(" bb", "Female", 1, Num(8)) }

NcdRow(location, code, year, gender, prevalence) ==
    [Location |-> Num(location), Code |-> Num(code), Year |-> Num(year), Gender |-> gender]
    @@ (Prevalence :> prevalence)

\* years inside and outside the range of the placeholders
DiabetesRows ==
    { NcdRow(l[1], l[2], y, g, Num(7)) :
          l \in {<<"Japan", "JPN">>, <<"South Korea", "KOR">>}, y \in {1985, 1995},
          g \in {Num(0), Num(1)} }

GapminderRow(country, code, year) ==
    [Country |-> Num(country), Country_Code |-> Num(code), Year |-> Num(year),
     GDP |-> Num(50), Life_Expectancy |-> Num(80)]

GapminderRows ==
    { GapminderRow(l[1], l[2], y) :
          l \in {<<"Japan", "JPN">>, <<"South Korea", "KOR">>}, y \in {1985, 1995} }

\* the raw Gapminder rows and the ISO table
GpRows ==
    { [country |-> Num(n), year |-> Num(2000), gdpPercap |-> Num(50), lifeExp |-> Num(80)] :
          n \in {"Aba", "bb", "Aaa"} }

IsoRows ==
    { ("English short name lower case" :> Num("Aba")) @@ ("Alpha-3 code" :> Num("ABA")),
      ("English short name lower case" :> Num("Aba")) @@ ("Alpha-3 code" :> Num("BAB")) }

OverweightRow(code, country, year, rate) ==
    [SpatialDimValueCode |-> Num(code), Location |-> Num(country), Period |-> Num(year),
     FactValueNumeric |-> Num(rate), Indicator |-> Num("NCD_BMI_25A")]

OverweightRows ==
    { OverweightRow("JPN", "Japan", 2000, 30), OverweightRow("KOR", "South Korea", 2000, 31),
      OverweightRow("JPN", "Japan", 2001, 32) }

WorldHealthRow(country, code, year, health, life) ==
    [country |-> Num(country), country_code |-> Num(code), year |-> Num(year),
     health_exp |-> health, life_expect |-> life, maternal_mortality |-> NaN]

WorldHealthRows ==
    { WorldHealthRow("Japan", "JPN", 2000, Num(10), Num(80)),
      WorldHealthRow("Japan", "JPN", 2001, Num(30), NaN),
      WorldHealthRow("South Korea", "KOR", 2000, NaN, Num(70)),
      WorldHealthRow("Kosovo", "XKX", 2000, Num(5), Num(75)) }

LifeExpectancyRows ==
    { [SpatialDimValueCode |-> Num("KOR"), Dim1ValueCode |-> Num("SEX_BTSX"),
       FactValueNumeric |-> Num(72), Period |-> Num(2000)],
      [SpatialDimValueCode |-> Num("JPN"), Dim1ValueCode |-> Num("SEX_MLE"),
       FactValueNumeric |-> Num(78), Period |-> Num(2001)] }

Cleaners ==
    {"process_activity_obesity_gdp", "process_disease_metrics", "_adding_missing_years",
     "add_missing_years", "prep_gapminder_data", "process_overweight_health"}

\* the tables cleaner o can be handed
SourcesOf(o) ==
    CASE o = "process_activity_obesity_gdp" ->
             [activity : FramesUpTo(ActivityRows, MaxSourceRows),
              obesity : FramesUpTo(ObesityRows, 1),
              gdp : FramesUpTo(WorldBankRows, 1)]
      [] o = "process_disease_metrics" ->
             [incidence_data : FramesUpTo(IncidenceRows, MaxSourceRows),
              mortality_data : FramesUpTo(MortalityRows, 1),
              prevalence_data : FramesUpTo(PrevalenceRows, 1)]
      [] o = "_adding_missing_years" -> [df : FramesUpTo(DiabetesRows, MaxSourceRows)]
      [] o = "add_missing_years" -> [df : FramesUpTo(GapminderRows, MaxSourceRows)]
      [] o = "prep_gapminder_data" ->
             [gp_df : FramesUpTo(GpRows, MaxSourceRows), iso_df : FramesUpTo(IsoRows, MaxSourceRows)]
      [] o = "process_overweight_health" ->
             [overweight_data : FramesUpTo(OverweightRows, MaxSourceRows + 1),
              world_health_data : FramesUpTo(WorldHealthRows, MaxSourceRows),
              life_expectancy_data : FramesUpTo(LifeExpectancyRows, 1)]

CleanInit ==
    /\ pc = "call"
    /\ op \in Cleaners
    /\ arg \in SourcesOf(op)
    /\ result = EmptyFrame
    /\ raised = FALSE
    /\ frames = <<>>
    /\ merged_df = EmptyFrame
    /\ col_i = 0
    /\ saved = NotSaved
    /\ given = EmptyFrame
    /\ df = EmptyFrame
    /\ target = {}
    /\ datasets = <<>>
    /\ cache = <<>>

Call_process_activity_obesity_gdp ==
    /\ Called("process_activity_obesity_gdp")
    /\ \E res \in {process_activity_obesity_gdp(arg.activity, arg.obesity, arg.gdp)} :
           Answer(res.df, res.raises)

Call_process_disease_metrics ==
    /\ Called("process_disease_metrics")
    /\ \E res \in {process_disease_metrics(arg.incidence_data, arg.mortality_data,
                                           arg.prevalence_data)} :
           Answer(res.df, res.raises)

Call_adding_missing_years ==
    /\ Called("_adding_missing_years")
    /\ \E res \in {_adding_missing_years(arg.df)} : Answer(res.df, res.raises)

Call_add_missing_years ==
    /\ Called("add_missing_years")
    /\ \E res \in {add_missing_years(arg.df)} : Answer(res.df, res.raises)

Call_prep_gapminder_data ==
    /\ Called("prep_gapminder_data")
    /\ \E res \in {prep_gapminder_data(arg.gp_df, arg.iso_df)} : Answer(res.df, res.raises)

Call_process_overweight_health ==
    /\ Called("process_overweight_health")
    /\ \E res \in {process_overweight_health(arg.overweight_data, arg.world_health_data,
                                             arg.life_expectancy_data)} :
           Answer(res.df, res.raises)

CleanNext ==
    \/ Call_process_activity_obesity_gdp
    \/ Call_process_disease_metrics
    \/ Call_adding_missing_years
    \/ Call_add_missing_years
    \/ Call_prep_gapminder_data
    \/ Call_process_overweight_health

SpecClean == CleanInit /\ [][CleanNext]_vars

-----------------------------------------------------------------------------
(* The steps of the cleaners, each called on its own by the cleaner that    *)
(* holds the frames: arg is the frames as they are when the call is made,   *)
(* frames is the same frame objects as the caller sees them afterwards, and *)
(* result is the frame the step returns.                                    *)

\* the labels read_excel gives the columns of the overweight sheet, whose
\* names are in its second row
SheetLabels ==
    [SpatialDimValueCode |-> "Unnamed: 0", Location |-> "Unnamed: 1", Period |-> "Unnamed: 2",
     FactValueNumeric |-> "Unnamed: 3", Indicator |-> "Unnamed: 4"]

\* the sheet that holds table f under its two header rows
Sheet(f) ==
    LET name(l) == CHOOSE c \in DOMAIN SheetLabels : SheetLabels[c] = l
        labelled == Rename(f, SheetLabels)
    IN  Frame(labelled.columns,
              <<[l \in labelled.columns |-> NaN], [l \in labelled.columns |-> Num(name(l))]>>
              \o labelled.rows)

\* line 8, df.columns = df.iloc[1]: the frame itself gets the cells of its
\* second row as column names
ColumnsFromSecondRow(f) == Rename(f, [c \in f.columns |-> f.rows[2][c][1]])

\* _clean_overweight_data(df), on the sheet as it is read
clean_overweight_sheet(sheet) ==
    IF Len(sheet.rows) < 2 THEN Raise(sheet)
    ELSE LET named == ColumnsFromSecondRow(sheet)
         IN  _clean_overweight_data(Frame(named.columns, SubSeq(named.rows, 3, Len(named.rows))))

Steps ==
    {"_clean_overweight_data", "_merge_and_impute_activity_obesity", "_merge_and_clean_datasets",
     "_impute_diabetes_data", "_fill_missing_values_with_regional", "impute_with_knn"}

\* a row of the long alcohol table
LongAlcoholRow(location, year, v) ==
    [Location |-> Num(location), Code |-> NaN, Year |-> Num(year), Alcohol_Value |-> v]

LongAlcoholRows ==
    {LongAlcoholRow(l, y, v) : l \in {"South Korea", "Asia", "Japan"}, y \in {1985, 1986},
                           v \in {NaN, Num(3), Num(5)}}

\* a region has one row in a year at most
OneRowPerRegionYear(f) ==
    \A i, j \in RowIdx(f) :
        (/\ f.rows[i]["Location"] = Num("Asia")
         /\ f.rows[j]["Location"] = Num("Asia")
         /\ f.rows[i]["Year"] = f.rows[j]["Year"]) => i = j

\* diabetes rows of two countries, with and without a prevalence
PrevalenceCells == {NaN, Num(7), Num(9)}

StepDiabetesRows ==
    {NcdRow(l[1], l[2], y, l[3], p) :
         l \in {<<"Japan", "JPN", Num(0)>>, <<"South Korea", "KOR", Num(1)>>},
         y \in {1985, 1995}, p \in PrevalenceCells}

\* the frames step o can be handed by its caller
StepSources(o) ==
    CASE o = "_clean_overweight_data" ->
             [df : {Sheet(f) : f \in FramesUpTo(OverweightRows, MaxStepRows)}]
      [] o = "_merge_and_impute_activity_obesity" ->
             [df1 : FramesUpTo(ActivityRows, MaxStepRows),
              df2 : FramesUpTo(ObesityRows, 1),
              df3 : {Dropna(Rename(f, [Entity |-> "Country"]
                                @@ ("GDP per capita, PPP (constant 2017 international $)" :> "GDP")),
                            "Code") : f \in FramesUpTo(WorldBankRows, 1)}]
      [] o = "_merge_and_clean_datasets" ->
             [overweight_df : {_clean_overweight_data(f).df : f \in FramesUpTo(OverweightRows, MaxStepRows)},
              world_df : {_clean_world_health_data(f).df : f \in FramesUpTo(WorldHealthRows, MaxStepRows)},
              life_expectancy_df : {_process_supplemental_life_expectancy(f).df :
                                        f \in FramesUpTo(LifeExpectancyRows, 1)}]
      [] o = "_impute_diabetes_data" -> [df : FramesUpTo(StepDiabetesRows, MaxStepRows)]
      [] o = "_fill_missing_values_with_regional" ->
             [df : {f \in FramesUpTo(LongAlcoholRows, MaxStepRows) : OneRowPerRegionYear(f)}]
      [] o = "impute_with_knn" -> [df : Inputs("impute_with_knn")]

StepInit ==
    /\ pc = "call"
    /\ op \in Steps
    /\ arg \in StepSources(op)
    /\ frames = arg
    /\ result = EmptyFrame
    /\ raised = FALSE
    /\ merged_df = EmptyFrame
    /\ col_i = 0
    /\ saved = NotSaved
    /\ given = EmptyFrame
    /\ df = EmptyFrame
    /\ target = {}
    /\ datasets = <<>>
    /\ cache = <<>>

\* the step ends: it returned res.df or raised, and the frames of the caller
\* are as the step left them
StepReturn(res, left) ==
    /\ result' = res.df
    /\ raised' = res.raises
    /\ frames' = left
    /\ pc' = "returned"
    /\ UNCHANGED <<cache, merged_df, col_i, saved, given, df, op, target, datasets, arg>>

\* line 8 names the columns of the frame of the caller; the later lines work
\* on new frames
Step_clean_overweight_data ==
    /\ Called("_clean_overweight_data")
    /\ \E res \in {clean_overweight_sheet(arg.df)} :
           StepReturn(res, IF Len(arg.df.rows) < 2 THEN arg
                           ELSE [df |-> ColumnsFromSecondRow(arg.df)])

\* lines 35-36 rename the columns of df1 and df2 in place
Step_merge_and_impute_activity_obesity ==
    /\ Called("_merge_and_impute_activity_obesity")
    /\ \E res \in {_merge_and_impute_activity_obesity(arg.df1, arg.df2, arg.df3)} :
           StepReturn(res, [df1 |-> Rename(arg.df1, [Prevalence_Rate |-> "Activity_Prevalence_Rate"]),
                            df2 |-> Rename(arg.df2, [Prevalence_Rate |-> "Obesity_Prevalence_Rate"]),
                            df3 |-> arg.df3])

\* line 82 writes the Year column of overweight_df again, as integers; the
\* merge and the fills work on the merged frame
Step_merge_and_clean_datasets ==
    /\ Called("_merge_and_clean_datasets")
    /\ \E res \in {_merge_and_clean_datasets(arg.overweight_df, arg.world_df,
                                             arg.life_expectancy_df)} :
           StepReturn(res, arg)

\* line 61 writes the column of the frame it was handed and returns that frame
Step_impute_diabetes_data ==
    /\ Called("_impute_diabetes_data")
    /\ \E res \in {_impute_diabetes_data(arg.df)} : StepReturn(res, [df |-> res.df])

\* line 122: the fill works on df.copy()
Step_fill_missing_values_with_regional ==
    /\ Called("_fill_missing_values_with_regional")
    /\ \E res \in {Returned(_fill_missing_values_with_regional(arg.df, region_mapping))} :
           StepReturn(res, arg)

\* main_pipeline.py line 50 writes the column of the frame it was handed
Step_impute_with_knn ==
    /\ Called("impute_with_knn")
    /\ \E res \in {impute_with_knn(arg.df, "GDP")} : StepReturn(res, [df |-> res.df])

StepNext ==
    \/ Step_clean_overweight_data
    \/ Step_merge_and_impute_activity_obesity
    \/ Step_merge_and_clean_datasets
    \/ Step_impute_diabetes_data
    \/ Step_fill_missing_values_with_regional
    \/ Step_impute_with_knn

SpecStep == StepInit /\ [][StepNext]_vars

-----------------------------------------------------------------------------
(* processing.py: the cleaning job.  main() runs the four cleaners of      *)
(* process_all_data one after the other and then writes the four processed *)
(* files; an exception of a cleaner, or of the reading of its files, is    *)
(* printed and raised again.  arg holds the raw files, result the frames   *)
(* of the cleaners that have returned, datasets the files written.         *)

\* lines 16-36 and 69-72: the statements of the run, in their order
JobSteps_SaveAsProcessed ==
    << "process_activity_obesity_gdp", "save_activity_obesity_gdp",
       "process_disease_metrics", "save_disease_metrics",
       "process_diabetes_alcohol", "save_diabetes_alcohol",
       "process_overweight_health", "save_overweight_health" >>

JobSteps ==
    << "process_activity_obesity_gdp", "process_disease_metrics",
       "process_diabetes_alcohol", "process_overweight_health",
       "save_activity_obesity_gdp", "save_disease_metrics",
       "save_diabetes_alcohol", "save_overweight_health" >>

\* the statement after statement step; the run is done after the last
StepAfter(step) ==
    LET k == CHOOSE i \in 1..Len(JobSteps) : JobSteps[i] = step
    IN  IF k = Len(JobSteps) THEN "done" ELSE JobSteps[k + 1]

\* the keys of processed_data
ProcessedNames ==
    {"activity_obesity_gdp", "disease_metrics", "diabetes_alcohol", "overweight_health"}

\* a file that cannot be read
NoFile == [missing |-> TRUE]

Missing(files) == "missing" \in DOMAIN files

OneRow(r) == Frame(DOMAIN r, <<r>>)

NoRows(r) == Frame(DOMAIN r, <<>>)

\* a row of the diabetes file
RawDiabetesRow(location, code, sex, year, prevalence) ==
    ("Country/Region/World" :> Num(location)) @@ ("ISO" :> Num(code)) @@ ("Sex" :> Num(sex))
    @@ ("Year" :> Num(year)) @@ (Prevalence :> prevalence)
    @@ [c \in columns_to_drop |-> Num(0)]

\* a row of the alcohol table: one column per year
RawAlcoholRow(location, code, a, b) ==
    [Location |-> Num(location), Code |-> Num(code)] @@ ("1985" :> a) @@ ("1986" :> b)

\* the raw files of each cleaner: files it cleans, files it fails on (a
\* table without rows, a column of notes among the years, a missing
\* Period), and files that cannot be read
ActivityFiles ==
    LET who == WhoRow("Japan", Num("JPN"), 2000, Num(5))
        gdp == CHOOSE r \in WorldBankRows : r["Code"] = Num("JPN")
    IN  { [activity |-> OneRow(who), obesity |-> OneRow(WhoRow("Japan", Num("JPN"), 2000, Num(8))),
           gdp |-> OneRow(gdp)],
          [activity |-> OneRow(who), obesity |-> NoRows(who), gdp |-> OneRow(gdp)],
          NoFile }

DiseaseFiles ==
    LET gbd == GbdRow("Aba", "Male", 0, Num(3))
    IN  { [incidence_data |-> OneRow(gbd), mortality_data |-> OneRow(gbd),
           prevalence_data |-> OneRow(gbd)],
          [incidence_data |-> NoRows(gbd), mortality_data |-> OneRow(gbd),
           prevalence_data |-> OneRow(gbd)],
          NoFile }

DiabetesFiles ==
    LET ncd == RawDiabetesRow("Japan", "JPN", "Men", 1985, Num(7))
        who == RawAlcoholRow("Japan", "JPN", Num(3), NaN)
    IN  { [diabetes_data |-> OneRow(ncd), alcohol_data |-> OneRow(who)],
          [diabetes_data |-> NoRows(ncd), alcohol_data |-> OneRow(who)],
          [diabetes_data |-> OneRow(ncd), alcohol_data |-> OneRow(who @@ ("Notes" :> NaN))],
          NoFile }

OverweightFiles ==
    LET who == OverweightRow("JPN", "Japan", 2000, 30)
        bank == WorldHealthRow("Japan", "JPN", 2000, Num(10), NaN)
        life == CHOOSE r \in LifeExpectancyRows : TRUE
    IN  { [overweight_data |-> OneRow(who), world_health_data |-> OneRow(bank),
           life_expectancy_data |-> OneRow(life)],
          [overweight_data |-> OneRow([who EXCEPT !["Period"] = NaN]),
           world_health_data |-> OneRow(bank), life_expectancy_data |-> OneRow(life)],
          NoFile }

\* main() starts: data_files name the raw files
JobInit ==
    /\ pc = JobSteps[1]
    /\ op = "processing.main"
    /\ arg \in [activity_obesity_gdp : ActivityFiles, disease_metrics : DiseaseFiles,
                diabetes_alcohol : DiabetesFiles, overweight_health : OverweightFiles]
    /\ result = <<>>
    /\ datasets = <<>>
    /\ cache = <<>>
    /\ raised = FALSE
    /\ frames = <<>>
    /\ merged_df = EmptyFrame
    /\ col_i = 0
    /\ saved = NotSaved
    /\ given = EmptyFrame
    /\ df = EmptyFrame
    /\ target = "none"

\* a cleaner has ended: its frame is kept, or its exception ends the run
\* (lines 76-78)
Processed(name, res) ==
    /\ raised' = res.raises
    /\ result' = IF res.raises THEN result ELSE result @@ (name :> res.df)
    /\ pc' = IF res.raises THEN "aborted" ELSE StepAfter(pc)
    /\ UNCHANGED <<cache, frames, merged_df, col_i, saved, given, df, op, target, datasets, arg>>

\* line 16
Process_activity_obesity_gdp ==
    /\ pc = "process_activity_obesity_gdp"
    /\ LET files == arg.activity_obesity_gdp
       IN  \E res \in {IF Missing(files) THEN Raise(EmptyFrame)
                       ELSE process_activity_obesity_gdp(files.activity, files.obesity, files.gdp)} :
               Processed("activity_obesity_gdp", res)

\* lines 20-23
Process_disease_metrics ==
    /\ pc = "process_disease_metrics"
    /\ LET files == arg.disease_metrics
       IN  \E res \in {IF Missing(files) THEN Raise(EmptyFrame)
                       ELSE process_disease_metrics(files.incidence_data, files.mortality_data,
                                                    files.prevalence_data)} :
               Processed("disease_metrics", res)

\* lines 27-29
Process_diabetes_alcohol ==
    /\ pc = "process_diabetes_alcohol"
    /\ LET files == arg.diabetes_alcohol
       IN  \E res \in {IF Missing(files) THEN Raise(EmptyFrame)
                       ELSE process_diabetes_alcohol(files.diabetes_data, files.alcohol_data)} :
               Processed("diabetes_alcohol", res)

\* lines 33-36
Process_overweight_health ==
    /\ pc = "process_overweight_health"
    /\ LET files == arg.overweight_health
       IN  \E res \in {IF Missing(files) THEN Raise(EmptyFrame)
                       ELSE process_overweight_health(files.overweight_data,
                                                      files.world_health_data,
                                                      files.life_expectancy_data)} :
               Processed("overweight_health", res)

\* processed_data[name].to_csv(file)
ToCsv(name, file) ==
    /\ datasets' = (file :> result[name]) @@ datasets
    /\ pc' = StepAfter(pc)
    /\ UNCHANGED <<cache, frames, merged_df, col_i, saved, given, df, op, target, raised, arg, result>>

\* line 69
Save_activity_obesity_gdp ==
    /\ pc = "save_activity_obesity_gdp"
    /\ ToCsv("activity_obesity_gdp", "datasets/processed_activity_obesity_gdp.csv")

\* line 70
Save_disease_metrics ==
    /\ pc = "save_disease_metrics"
    /\ ToCsv("disease_metrics", "datasets/processed_disease_metrics.csv")

\* line 71
Save_diabetes_alcohol ==
    /\ pc = "save_diabetes_alcohol"
    /\ ToCsv("diabetes_alcohol", "datasets/processed_diabetes_alcohol.csv")

\* line 72
Save_overweight_health ==
    /\ pc = "save_overweight_health"
    /\ ToCsv("overweight_health", "datasets/processed_health_data.csv")

JobNext ==
    \/ Process_activity_obesity_gdp
    \/ Process_disease_metrics
    \/ Process_diabetes_alcohol
    \/ Process_overweight_health
    \/ Save_activity_obesity_gdp
    \/ Save_disease_metrics
    \/ Save_diabetes_alcohol
    \/ Save_overweight_health

\* a run of either job: the cleaning job or the merge job
RunInit == Init \/ JobInit

RunNext == Next \/ JobNext

SpecRun == RunInit /\ [][RunNext]_vars

-----------------------------------------------------------------------------
(* The two jobs one after the other: the cleaning job writes the four      *)
(* processed files and main_pipeline.py reads them.                         *)

\* pd.read_csv of a file to_csv wrote: an empty field, here an empty name,
\* is read as missing
ReadCsv(f) ==
    Frame(f.columns,
          [i \in RowIdx(f) |->
              [c \in f.columns |-> IF c \in {"Country", "Location"} /\ f.rows[i][c] = Num("")
                                   THEN NaN ELSE f.rows[i][c]]])

\* the table of the rows rs
Table(rs) == Frame(DOMAIN rs[1], rs)

\* disease files of one, two and three sexes; each row has its own value
SexesFiles ==
    LET file(rs) == [incidence_data |-> Table(rs), mortality_data |-> Table(rs),
                     prevalence_data |-> Table(rs)]
    IN  { file(<<GbdRow("Aba", "Male", 0, Num(3))>>),
          file(<<GbdRow("Aba", "Female", 0, Num(4)), GbdRow("Aba", "Male", 0, Num(3))>>),
          file(<<GbdRow("Aba", "Both", 0, Num(5)), GbdRow("Aba", "Female", 0, Num(4)),
                 GbdRow("Aba", "Male", 0, Num(3))>>) }

\* diabetes files of men and of women
MenWomenFiles ==
    {[diabetes_data |-> OneRow(RawDiabetesRow("Japan", "JPN", sex, 1985, Num(7))),
      alcohol_data |-> OneRow(RawAlcoholRow("Japan", "JPN", Num(3), NaN))] : sex \in {"Men", "Women"}}

\* processing.main() starts on raw files every cleaner accepts
PipelineJobInit ==
    /\ pc = JobSteps[1]
    /\ op = "processing.main"
    /\ arg \in [activity_obesity_gdp : {f \in ActivityFiles : ~Missing(f) /\ f.obesity.rows # <<>>},
                disease_metrics : SexesFiles,
                diabetes_alcohol : MenWomenFiles,
                overweight_health : {f \in OverweightFiles :
                                        ~Missing(f) /\ NotNull(f.overweight_data.rows[1]["Period"])}]
    /\ result = <<>>
    /\ datasets = <<>>
    /\ cache = <<>>
    /\ raised = FALSE
    /\ frames = <<>>
    /\ merged_df = EmptyFrame
    /\ col_i = 0
    /\ saved = NotSaved
    /\ given = EmptyFrame
    /\ df = EmptyFrame
    /\ target = "none"

\* main_pipeline.py lines 54-57, run after the cleaning job has written its
\* files
Load ==
    /\ pc = "done"
    /\ op = "processing.main"
    /\ frames' =
         [weight_health_exp_df |-> ReadCsv(datasets["datasets/processed_health_data.csv"]),
          diabetes_alcohol_df |-> ReadCsv(datasets["datasets/processed_diabetes_alcohol.csv"]),
          gdp_obesity_physical_df |-> ReadCsv(datasets["datasets/processed_activity_obesity_gdp.csv"]),
          heart_disease_df |-> ReadCsv(datasets["datasets/processed_disease_metrics.csv"])]
    /\ op' = "main_pipeline"
    /\ pc' = "loaded"
    /\ UNCHANGED <<cache, merged_df, col_i, saved, given, df, target, raised, datasets, arg, result>>

\* the merge job on any processed files, or both jobs from the raw files
PipelineInit == Init \/ PipelineJobInit

PipelineNext == JobNext \/ Load \/ Next

SpecPipeline == PipelineInit /\ [][PipelineNext]_vars

-----------------------------------------------------------------------------
(* The dashboard: app.py and the pages of dash_pages_scripts.  df is the    *)
(* table loaded at startup and handed to every page, given the table as it  *)
(* was right after the load, cache the memoized values, op and arg the      *)
(* callback served last and its parameters, result the data it returned.    *)
(* The name of a country is a string, its code a sequence of characters.    *)

\* rows of the table the dashboard loads
MaxTableRows == 1

\* rows of the long table: enough for a top-8 list to be full
LongTableRows == 9

\* pycountry_convert.country_name_to_country_alpha2: the names it has.  SX
\* is a code COUNTRY_ALPHA2_TO_CONTINENT_CODE lacks, which is why app.py
\* maps SXM by hand
COUNTRY_NAME_TO_COUNTRY_ALPHA2 ==
    ("Aba" :> <<"A", "B">>) @@ ("B a" :> <<"B", "A">>) @@ ("A b" :> <<"A", "A">>)
    @@ ("Sint Maarten (Dutch part)" :> <<"S", "X">>)

\* pycountry_convert.convert_continent_code_to_continent_name
CONTINENT_NAMES ==
    [AF |-> "Africa", AN |-> "Antarctica", AS |-> "Asia", EU |-> "Europe",
     NA |-> "North America", OC |-> "Oceania", SA |-> "South America"]

\* correlation_page.custom_continent_map, in the order of the dictionary
custom_continent_map ==
    << <<"Asia", {"Democratic Republic of Timor-Leste", "Republic of Turkey", "Lao PDR"}>>,
       <<"Africa", {"Cote d'Ivoire", "Guinea Bissau", "Republic of Rwanda",
                    "Republic of Sudan"}>> >>

\* the get_region of sankey_data_prep: the continent of a country name, NaN
\* when pycountry_convert raises KeyError
sankey_get_region(country_name) ==
    IF country_name \notin DOMAIN COUNTRY_NAME_TO_COUNTRY_ALPHA2 THEN NaN
    ELSE LET country_code == COUNTRY_NAME_TO_COUNTRY_ALPHA2[country_name]
         IN  IF ContinentCodeRaises(country_code) THEN NaN
             ELSE LET continent_code == COUNTRY_ALPHA2_TO_CONTINENT_CODE[country_code]
                  IN  IF continent_code = "NA" THEN Num("North America")
                      ELSE IF continent_code = "SA" THEN Num("South America")
                      ELSE Num(CONTINENT_NAMES[continent_code])

\* get_custom_region(country_name): the first region of the custom map that
\* lists the name, else NaN
get_custom_region(country_name) ==
    LET hits == {k \in 1..Len(custom_continent_map) :
                     country_name \in custom_continent_map[k][2]}
    IN  IF hits = {} THEN NaN
        ELSE Num(custom_continent_map[CHOOSE k \in hits : \A j \in hits : k <= j][1])

\* the Region column sankey_data_prep writes: the region by name, and where
\* that is NaN the region of the custom map
RegionByName(cell) ==
    IF IsNull(cell) THEN NaN
    ELSE IF NotNull(sankey_get_region(cell[1])) THEN sankey_get_region(cell[1])
    ELSE get_custom_region(cell[1])

\* sankey_data_prep(data): the frame it is given, with its Region column
\* replaced
sankey_data_prep(data) ==
    Frame(data.columns \cup {"Region"},
          [i \in RowIdx(data) |->
              [c \in data.columns \cup {"Region"} |->
                  IF c = "Region" THEN RegionByName(data.rows[i]["Country"])
                  ELSE data.rows[i][c]]])

\* the Region column app.py writes at startup, from the country code
RegionByCode(f) ==
    Frame(f.columns \cup {"Region"},
          [i \in RowIdx(f) |->
              [c \in f.columns \cup {"Region"} |->
                  IF c = "Region" THEN Num(get_region(f.rows[i]["Country_Code"][1]).value)
                  ELSE f.rows[i][c]]])

\* the countries of the table: name and code
DashCountries ==
    { <<"Aba", <<"A", "B", "A">> >>,
      <<"A b", <<"A", "A", "B">> >>,
      <<"Sint Maarten (Dutch part)", <<"S", "X", "M">> >>,
      <<"Democratic Republic of Timor-Leste", <<"T", "L", "S">> >> }

DashGenders == {"Both", "Male"}

DashYear == 2000

RiskFactors ==
    <<"Alcohol_Value", "Obesity_Prevalence_Rate", "Diabetes_Prevalence_Rate",
      "Activity_Prevalence_Rate">>

\* a row of FINAL_MERGED_DATA_reimputed.parquet; every value is known
DashRow(country, gender, rate) ==
    [Country |-> Num(country[1]), Country_Code |-> Num(country[2]),
     Year |-> Num(DashYear), Gender |-> Num(gender),
     Age_Group |-> Num("Age-standardized"),
     PrevalenceRate |-> Num(rate), MortalityRate |-> Num(rate + 1),
     GDP |-> Num(100 - rate), Alcohol_Value |-> Num(rate),
     Obesity_Prevalence_Rate |-> Num(2 * rate),
     Diabetes_Prevalence_Rate |-> Num(rate + 3),
     Activity_Prevalence_Rate |-> Num(50 - rate)]

\* the rate of a country in the short tables
RateOf(country) ==
    IF country[1] = "Aba" THEN 10
    ELSE IF country[1] = "A b" THEN 20
    ELSE IF country[1] = "Sint Maarten (Dutch part)" THEN 30 ELSE 40

\* the countries of the short tables
ShortCountries ==
    {c \in DashCountries : c[1] \in {"Aba", "Sint Maarten (Dutch part)"}}

DashRows == {DashRow(c, g, RateOf(c)) : c \in ShortCountries, g \in DashGenders}

\* the countries of the long table, in turn
LongCountry(k) ==
    IF k % 4 = 1 THEN <<"Aba", <<"A", "B", "A">> >>
    ELSE IF k % 4 = 2 THEN <<"A b", <<"A", "A", "B">> >>
    ELSE IF k % 4 = 3 THEN <<"Sint Maarten (Dutch part)", <<"S", "X", "M">> >>
    ELSE <<"Democratic Republic of Timor-Leste", <<"T", "L", "S">> >>

\* n rows of Gender 'Both' in one year, no two rates the same
LongRows(n) == [k \in 1..n |-> DashRow(LongCountry(k), "Both", 3 * k)]

DashTableColumns == DOMAIN DashRow(<<"Aba", <<"A", "B", "A">> >>, "Both", 0)

\* the tables the parquet file can hold
DashTables ==
    {Frame(DashTableColumns, rs) :
        rs \in (SeqsUpTo(DashRows, MaxTableRows) \ {<<>>})
               \cup {LongRows(n) : n \in {7, LongTableRows}}}

\* app.py line 64: corr_data, a copy of the table without Country_Code and
\* Region, taken at startup
corr_data == Select(given, given.columns \ {"Country_Code", "Region"})

\* a figure: its title and the rows or marks it draws
Fig(title, data) == [title |-> title, data |-> data]

NoDataTitle == <<"No data available for selected filters">>

\* df[df[c] == v]
Where(f, c, v) == Frame(f.columns, SelectSeq(f.rows, LAMBDA r : r[c] = Num(v)))

\* the place of row i when the rows are put in descending order of column
\* c, the first of two equal values first
Place(f, c, i) ==
    Cardinality({j \in RowIdx(f) : \/ f.rows[j][c][1] > f.rows[i][c][1]
                                   \/ (f.rows[j][c][1] = f.rows[i][c][1] /\ j < i)}) + 1

\* DataFrame.nlargest(n, c): the n rows with the largest values of column
\* c, largest first; rows without a value are left out
nlargest(f, n, c) ==
    LET known == Dropna(f, c)
        m == IF Len(known.rows) < n THEN Len(known.rows) ELSE n
    IN  Frame(f.columns,
              [k \in 1..m |-> known.rows[CHOOSE i \in RowIdx(known) : Place(known, c, i) = k]])

\* sort_values(c, ascending=True) of rows that nlargest put in descending
\* order: the rows in reverse
Reversed(f) == Frame(f.columns, [k \in RowIdx(f) |-> f.rows[Len(f.rows) + 1 - k]])

\* groupby(keys)[c].mean().reset_index(): one row per combination of the
\* keys, groups with a missing key left out; the rows as a set
GroupMean(f, keys, c) ==
    LET full == {i \in RowIdx(f) : \A k \in keys : NotNull(f.rows[i][k])}
        Same(i) == {j \in full : \A k \in keys : f.rows[j][k] = f.rows[i][k]}
        Known(i) == {j \in Same(i) : NotNull(f.rows[j][c])}
        Mean(i) == IF Known(i) = {} THEN NaN
                   ELSE Num(RoundDiv(SetSum(Known(i), [j \in Known(i) |-> f.rows[j][c][1]]),
                                     Cardinality(Known(i))))
    IN  {[k \in keys \cup {c} |-> IF k = c THEN Mean(i) ELSE f.rows[i][k]] : i \in full}

\* groupby([a, b]).size().reset_index(name="Count"): the pairs and how many
\* rows have each, rows with a missing key left out
GroupSize(f, a, b) ==
    LET full == {i \in RowIdx(f) : NotNull(f.rows[i][a]) /\ NotNull(f.rows[i][b])}
    IN  {[source |-> f.rows[i][a][1], target |-> f.rows[i][b][1],
          value |-> Cardinality({j \in full : /\ f.rows[j][a] = f.rows[i][a]
                                              /\ f.rows[j][b] = f.rows[i][b]})] : i \in full}

\* the filters of create_choropleth and create_barplot
PlotFilter(table, year, continent, age_group, gender) ==
    LET by_year == Where(table, "Year", year)
        by_region == IF continent # "All" THEN Where(by_year, "Region", continent)
                     ELSE by_year
        by_age == IF age_group # "Age-standardized" THEN Where(by_region, "Age_Group", age_group)
                  ELSE by_region
    IN  IF gender # "All" THEN Where(by_age, "Gender", gender) ELSE by_age

\* create_choropleth(df, year, continent, metric, age_group, gender,
\* economic_indicator): the map of the rows that pass the filters; it has no
\* branch for an empty selection
create_choropleth(table, year, continent, metric, age_group, gender, economic_indicator) ==
    LET filtered_df == PlotFilter(table, year, continent, age_group, gender)
        selected_metric == IF economic_indicator # "None" THEN economic_indicator ELSE metric
    IN  Fig(<<selected_metric, "Distribution", year>>,
            Select(filtered_df, {"Country_Code", selected_metric}).rows)

\* create_barplot(df, year, continent, metric, age_group, gender): the ten
\* largest in ascending order, or the placeholder when no row is left
create_barplot(table, year, continent, metric, age_group, gender) ==
    LET filtered_df == PlotFilter(table, year, continent, age_group, gender)
    IN  IF filtered_df.rows = <<>> THEN Fig(NoDataTitle, <<>>)
        ELSE Fig(<<"Top 10 Countries", metric, year>>,
                 Reversed(Select(nlargest(filtered_df, 10, metric),
                                 {"Country", metric, "Region", "GDP"})).rows)

\* the data update_plots returns: the map, the economic map, the bar plot
\* and the scatter plot
plots(table, year, continent, metric, economic_indicator, age_group, gender) ==
    [choropleth |-> create_choropleth(table, year, continent, metric, age_group, gender, "None"),
     economic |-> IF economic_indicator # "None"
                  THEN create_choropleth(table, year, continent, metric, age_group, gender,
                                         economic_indicator)
                  ELSE Fig(<<"Select an Economic Indicator">>, <<>>),
     bar |-> create_barplot(table, year, continent, metric, age_group, gender),
     scatter |-> IF economic_indicator # "None"
                 THEN Fig(<<metric, "vs", economic_indicator, year>>,
                          Select(Where(table, "Year", year),
                                 {economic_indicator, metric, "Region", "Country"}).rows)
                 ELSE Fig(<<"Select an Economic Indicator">>, <<>>)]

\* overview.update_map(selected_year)
world_map(table, selected_year) ==
    Fig(<<"Heart Disease Prevalence", selected_year>>,
        Select(Where(table, "Year", selected_year), {"Country_Code", "PrevalenceRate"}).rows)

\* the rows update_top_countries filters: the year and Gender 'Both'
TopFiltered(table, selected_year) == Where(Where(table, "Year", selected_year), "Gender", "Both")

\* how many rows update_top_countries asks nlargest for, and how many ranks
\* it inserts: range(1, 8)
TopAsked == 7

\* insert(0, 'Rank', range(1, 8)) raises ValueError unless nlargest left as
\* many rows as there are ranks
TopRaises(table, selected_metric, selected_year) ==
    Len(nlargest(TopFiltered(table, selected_year), TopAsked, selected_metric).rows) # TopAsked

\* update_top_countries(selected_metric, selected_year): the records of the
\* table
top_countries(table, selected_metric, selected_year) ==
    LET top_8_df == Select(nlargest(TopFiltered(table, selected_year), TopAsked, selected_metric),
                           {"Country", selected_metric})
    IN  [k \in RowIdx(top_8_df) |->
            [Rank |-> k, Country |-> top_8_df.rows[k]["Country"],
             Value |-> top_8_df.rows[k][selected_metric]]]

\* metric_analysis.update_prevalence_rate(year)
prevalence_rate(table, year) ==
    Fig(<<"Average Prevalence Rate by Continent", year>>,
        GroupMean(Where(table, "Year", year), {"Region"}, "PrevalenceRate"))

\* metric_analysis.update_age_grouped_mortality(continent, age_group)
age_grouped_mortality(table, continent, age_group) ==
    Fig(<<"Mortality Rate Over Time in", continent, age_group>>,
        GroupMean(Where(Where(table, "Region", continent), "Age_Group", age_group),
                  {"Year"}, "MortalityRate"))

\* metric_analysis.update_country_gender_mortality(country, gender)
country_gender_mortality(table, country, gender) ==
    Fig(<<"Mortality Rate in", country, gender>>,
        GroupMean(Where(Where(table, "Country", country), "Gender", gender),
                  {"Year"}, "MortalityRate"))

\* metric_analysis.update_average_mortality(year)
average_mortality(table, year) ==
    Fig(<<"Average Mortality Rate per Country", year>>,
        GroupMean(Where(table, "Year", year), {"Country_Code", "Country"}, "MortalityRate"))

\* metric_analysis.update_risk_factors_plot(risk_factor), after the column
\* is written back: the mean by region and country of the rows with no
\* missing value
risk_factors_plot(table, risk_factor) ==
    IF risk_factor \notin table.columns
    THEN Fig(<<"Invalid Selection - No Data Available">>, {})
    ELSE LET picked == Select(table, {"Region", "Country", risk_factor})
             df_filtered == Frame(picked.columns,
                                  SelectSeq(picked.rows,
                                            LAMBDA r : \A c \in picked.columns : NotNull(r[c])))
         IN  Fig(<<"Average by Continent", risk_factor>>,
                 GroupMean(df_filtered, {"Region", "Country"}, risk_factor))

\* pd.to_numeric(df_main[risk_factor], errors='coerce') written back to the
\* column: a number stays, anything else becomes NaN
to_numeric(table, risk_factor) ==
    SetColumn(table, risk_factor,
              [i \in RowIdx(table) |->
                  IF NotNull(table.rows[i][risk_factor]) /\ table.rows[i][risk_factor][1] \in Int
                  THEN table.rows[i][risk_factor] ELSE NaN])

\* the choice 'All' of the year dropdown of the correlation page; a year y
\* is the choice Num(y)
AllYears == <<>>

\* filter_heatmap_data(year, countries), on corr_data
filter_heatmap_data(data, year, countries) ==
    LET by_year == IF year # AllYears THEN Where(data, "Year", year[1]) ELSE data
    IN  IF countries # "All" THEN Where(by_year, "Country", countries) ELSE by_year

\* update_heatmap(year, countries, selected_features): the correlations of
\* the selected columns of the filtered rows, drawn here as those rows; an
\* empty figure when no row is left
heatmap(data, year, countries, selected_features) ==
    LET filtered_df == filter_heatmap_data(data, year, countries)
    IN  IF filtered_df.rows = <<>> THEN Fig(<<>>, <<>>)
        ELSE Fig(<<>>, Select(filtered_df, selected_features).rows)

\* filter_scatter_data(year, countries, x_feature, y_feature), on corr_data:
\* the means by country and year when every country is asked for, the rows
\* of the country otherwise; rows with a missing feature are dropped
filter_scatter_data(data, year, countries, x_feature, y_feature) ==
    LET needed == Select(data, {"Year", "Country", x_feature, y_feature})
        by_year == IF year # AllYears THEN Where(needed, "Year", year[1]) ELSE needed
        x_means == GroupMean(by_year, {"Country", "Year"}, x_feature)
        y_means == GroupMean(by_year, {"Country", "Year"}, y_feature)
        joined == {[c \in needed.columns |->
                       IF c = y_feature THEN (CHOOSE m \in y_means :
                                                 /\ m["Country"] = g["Country"]
                                                 /\ m["Year"] = g["Year"])[y_feature]
                       ELSE g[c]] : g \in x_means}
        picked == IF countries = "All" THEN joined
                  ELSE SeqRange(Where(by_year, "Country", countries).rows)
    IN  {r \in picked : NotNull(r[x_feature]) /\ NotNull(r[y_feature])}

\* update_scatter(year, countries, x_feature, y_feature)
scatter(data, year, countries, x_feature, y_feature) ==
    Fig(<<x_feature, "vs", y_feature>>,
        filter_scatter_data(data, year, countries, x_feature, y_feature))

\* create_sankey: the columns it cuts into levels and the labels of the
\* three levels of each
LevelColumn ==
    ("Alcohol_Value" :> "Alcohol Level")
    @@ ("Obesity_Prevalence_Rate" :> "Obesity Level")
    @@ ("Diabetes_Prevalence_Rate" :> "Diabetes Level")
    @@ ("Activity_Prevalence_Rate" :> "Physical Activity Level")
    @@ ("PrevalenceRate" :> "PrevalenceRate Level")
    @@ ("MortalityRate" :> "MortalityRate Level")

LevelLabels ==
    ("Alcohol_Value" :> <<"Low Alcohol", "Moderate Alcohol", "High Alcohol">>)
    @@ ("Obesity_Prevalence_Rate" :> <<"Low Obesity", "Moderate Obesity", "High Obesity">>)
    @@ ("Diabetes_Prevalence_Rate" :> <<"Low Diabetes", "Moderate Diabetes", "High Diabetes">>)
    @@ ("Activity_Prevalence_Rate" :>
            <<"Low Physical Activity", "Moderate Physical Activity", "High Physical Activity">>)
    @@ ("PrevalenceRate" :>
            <<"Low PrevalenceRate", "Moderate PrevalenceRate", "High PrevalenceRate">>)
    @@ ("MortalityRate" :>
            <<"Low MortalityRate", "Moderate MortalityRate", "High MortalityRate">>)

\* the keys of columns_to_categorize, in the order of the dictionary
columns_to_categorize(trgt) == RiskFactors \o <<trgt>>

\* the k-th smallest of the values, k from 0
OrderStat(vals, k) ==
    CHOOSE v \in SeqRange(vals) :
        /\ Cardinality({j \in 1..Len(vals) : vals[j] < v}) <= k
        /\ k < Cardinality({j \in 1..Len(vals) : vals[j] <= v})

\* v <= Series.quantile(quarters / 4), the quantile interpolated linearly
\* between the two values around position (n - 1) * quarters / 4; the
\* quantile of no value is NaN and nothing is <= NaN
AtMostQuantile(vals, v, quarters) ==
    /\ vals # <<>>
    /\ LET h == (Len(vals) - 1) * quarters
           lo == OrderStat(vals, h \div 4)
           hi == IF h % 4 = 0 THEN lo ELSE OrderStat(vals, (h \div 4) + 1)
       IN  4 * v <= 4 * lo + (h % 4) * (hi - lo)

\* categorize_column(series, col_name): np.select over the two quartiles,
\* the third label by default (a missing value is <= nothing)
categorize_column(f, col) ==
    LET known == Dropna(f, col)
        vals == [i \in RowIdx(known) |-> known.rows[i][col][1]]
    IN  [i \in RowIdx(f) |->
            IF IsNull(f.rows[i][col]) THEN Num(LevelLabels[col][3])
            ELSE IF AtMostQuantile(vals, f.rows[i][col][1], 1) THEN Num(LevelLabels[col][1])
            ELSE IF AtMostQuantile(vals, f.rows[i][col][1], 3) THEN Num(LevelLabels[col][2])
            ELSE Num(LevelLabels[col][3])]

\* the loop of create_sankey that writes the level columns into the frame
RECURSIVE WithLevels(_, _)
WithLevels(f, cols) ==
    IF cols = <<>> THEN f
    ELSE WithLevels(SetColumn(f, LevelColumn[Head(cols)], categorize_column(f, Head(cols))),
                    Tail(cols))

\* the links of the diagram: level to region for the four risk factors,
\* region to the level of the target
SankeyLinks(f, trgt) ==
    Fig(<<"Risk Factor Influence on Heart Disease per Continent">>,
        UNION {GroupSize(f, LevelColumn[RiskFactors[k]], "Region") : k \in 1..Len(RiskFactors)}
        \cup GroupSize(f, "Region", LevelColumn[trgt]))

\* what a call of create_sankey(trgt) that is not cached does to the frame
\* it is handed and to the cache: sankey_data_prep is memoized on the text
\* of the frame; on a miss it writes the Region column of the frame itself,
\* stores a pickled copy and returns the frame itself, so the level columns
\* are written into the frame too; on a hit it returns a copy of the stored
\* frame and the frame itself is left alone
create_sankey(table, memo, trgt) ==
    LET key == <<"sankey_data_prep", table>>
        hit == key \in DOMAIN memo
        prepared == IF hit THEN memo[key] ELSE sankey_data_prep(table)
        levelled == WithLevels(prepared, columns_to_categorize(trgt))
    IN  [df |-> IF hit THEN table ELSE levelled,
         cache |-> IF hit THEN memo ELSE (key :> prepared) @@ memo,
         fig |-> SankeyLinks(levelled, trgt)]

\* the value of a memoized function: the stored one when the cache has the
\* key, the computed one otherwise
Memoized(memo, key, value) == IF key \in DOMAIN memo THEN memo[key] ELSE value

\* the cache after the call
Stored(memo, key, value) == IF key \in DOMAIN memo THEN memo ELSE (key :> value) @@ memo

\* display_page(pathname): the page and the choices its layout reads from
\* the table
page(pathname, table, data) ==
    IF pathname = "/choropleth"
    THEN [page |-> "choropleth", options |-> SeqRange(Column(table, "Region"))]
    ELSE IF pathname = "/metric-analysis"
    THEN [page |-> "metric-analysis", options |-> SeqRange(Column(table, "Region")) \ {NaN}]
    ELSE IF pathname = "/correlation"
    THEN [page |-> "correlation", options |-> SeqRange(Column(data, "Country"))]
    ELSE [page |-> "overview", options |-> SeqRange(Column(table, "Country"))]

Pathnames == {"/", "/choropleth", "/metric-analysis", "/correlation"}

\* the choices of the region dropdowns that the requests of the model pick
Continents == {"North America"}

Metrics == {"PrevalenceRate"}

EconomicIndicators == {"None", "GDP"}

CountryNames == {"Aba"}

HeatmapFeatures == {"PrevalenceRate", "GDP"}

DashInit ==
    /\ pc = "ready"
    /\ given \in {RegionByCode(t) : t \in DashTables}
    /\ df = given
    /\ cache = <<>>
    /\ op = "load"
    /\ arg = <<>>
    /\ result = <<>>
    /\ raised = FALSE
    /\ frames = <<>>
    /\ merged_df = EmptyFrame
    /\ col_i = 0
    /\ saved = NotSaved
    /\ target = {}
    /\ datasets = <<>>

Serving == pc \in {"ready", "served"}

\* a callback ends: with the data it returns, or with an exception
Serve(o, a, res, raises, table, memo) ==
    /\ op' = o
    /\ arg' = a
    /\ result' = res
    /\ raised' = raises
    /\ df' = table
    /\ cache' = memo
    /\ pc' = "served"
    /\ UNCHANGED <<frames, merged_df, col_i, saved, given, target, datasets>>

display_page ==
    /\ Serving
    /\ \E pathname \in Pathnames :
           Serve("display_page", <<pathname>>, page(pathname, df, corr_data), FALSE, df, cache)

\* on a selection that leaves no row the assignment of the hover text in
\* create_choropleth raises or not, as the version of pandas has it
update_plots ==
    /\ Serving
    /\ \E continent \in {"All"} \cup Continents, economic_indicator \in EconomicIndicators,
          gender \in {"Both"}, raises \in BOOLEAN :
           /\ raises => PlotFilter(df, DashYear, continent, "Age-standardized", gender).rows = <<>>
           /\ Serve("update_plots", <<DashYear, continent, "PrevalenceRate", economic_indicator,
                                      "Age-standardized", gender>>,
                    IF raises THEN <<>>
                    ELSE plots(df, DashYear, continent, "PrevalenceRate", economic_indicator,
                               "Age-standardized", gender),
                    raises, df, cache)

update_map ==
    /\ Serving
    /\ Serve("update_map", <<DashYear>>, world_map(df, DashYear), FALSE, df, cache)

update_top_countries ==
    /\ Serving
    /\ \E selected_metric \in Metrics :
           Serve("update_top_countries", <<selected_metric, DashYear>>,
                 IF TopRaises(df, selected_metric, DashYear) THEN <<>>
                 ELSE top_countries(df, selected_metric, DashYear),
                 TopRaises(df, selected_metric, DashYear), df, cache)

update_prevalence_rate ==
    /\ Serving
    /\ Serve("update_prevalence_rate", <<DashYear>>, prevalence_rate(df, DashYear), FALSE,
             df, cache)

update_age_grouped_mortality ==
    /\ Serving
    /\ \E continent \in Continents :
           Serve("update_age_grouped_mortality", <<continent, "Age-standardized">>,
                 age_grouped_mortality(df, continent, "Age-standardized"), FALSE, df, cache)

update_country_gender_mortality ==
    /\ Serving
    /\ \E country \in CountryNames :
           Serve("update_country_gender_mortality", <<country, "Both">>,
                 country_gender_mortality(df, country, "Both"), FALSE, df, cache)

update_average_mortality ==
    /\ Serving
    /\ Serve("update_average_mortality", <<DashYear>>, average_mortality(df, DashYear), FALSE,
             df, cache)

\* the column is written back into the table of the process before the
\* plot is made
update_risk_factors_plot ==
    /\ Serving
    /\ \E risk_factor \in {RiskFactors[1]} :
           LET table == IF risk_factor \in df.columns THEN to_numeric(df, risk_factor) ELSE df
           IN  Serve("update_risk_factors_plot", <<risk_factor>>,
                     risk_factors_plot(table, risk_factor), FALSE, table, cache)

\* memoized on its arguments, and so is filter_heatmap_data
update_heatmap ==
    /\ Serving
    /\ \E countries \in CountryNames :
           LET a == <<Num(DashYear), countries, HeatmapFeatures>>
               key == <<"update_heatmap", a>>
               fkey == <<"filter_heatmap_data", a>>
               fig == heatmap(corr_data, Num(DashYear), countries, HeatmapFeatures)
           IN  Serve("update_heatmap", a, Memoized(cache, key, fig), FALSE, df,
                     IF key \in DOMAIN cache THEN cache
                     ELSE Stored(Stored(cache, fkey,
                                        filter_heatmap_data(corr_data, Num(DashYear), countries)),
                                 key, fig))

\* memoized on its arguments, and so is filter_scatter_data
update_scatter ==
    /\ Serving
    /\ \E countries \in {"All"} :
           LET a == <<Num(DashYear), countries, "GDP", "PrevalenceRate">>
               key == <<"update_scatter", a>>
               fkey == <<"filter_scatter_data", a>>
               fig == scatter(corr_data, Num(DashYear), countries, "GDP", "PrevalenceRate")
           IN  Serve("update_scatter", a, Memoized(cache, key, fig), FALSE, df,
                     IF key \in DOMAIN cache THEN cache
                     ELSE Stored(Stored(cache, fkey,
                                        filter_scatter_data(corr_data, Num(DashYear), countries,
                                                            "GDP", "PrevalenceRate")),
                                 key, fig))

\* update_sankey(target) and create_sankey(trgt) are memoized on the target;
\* create_sankey works on the table of the process
update_sankey ==
    /\ Serving
    /\ \E trgt \in Metrics :
           LET key == <<"update_sankey", <<trgt>> >>
               ckey == <<"create_sankey", <<trgt>> >>
               made == create_sankey(df, cache, trgt)
           IN  IF key \in DOMAIN cache
               THEN Serve("update_sankey", <<trgt>>, cache[key], FALSE, df, cache)
               ELSE IF ckey \in DOMAIN cache
               THEN Serve("update_sankey", <<trgt>>, cache[ckey], FALSE, df,
                          Stored(cache, key, cache[ckey]))
               ELSE Serve("update_sankey", <<trgt>>, made.fig, FALSE, made.df,
                          Stored(Stored(made.cache, ckey, made.fig), key, made.fig))

\* CACHE_DEFAULT_TIMEOUT: a stored value times out
Expire ==
    /\ Serving
    /\ \E key \in DOMAIN cache :
           cache' = [k \in DOMAIN cache \ {key} |-> cache[k]]
    /\ UNCHANGED <<pc, frames, merged_df, col_i, saved, given, df, op, target, raised,
                   datasets, arg, result>>

DashNext ==
    \/ display_page
    \/ update_plots
    \/ update_map
    \/ update_top_countries
    \/ update_prevalence_rate
    \/ update_age_grouped_mortality
    \/ update_country_gender_mortality
    \/ update_average_mortality
    \/ update_risk_factors_plot
    \/ update_heatmap
    \/ update_scatter
    \/ update_sankey
    \/ Expire

SpecDash == DashInit /\ [][DashNext]_vars

-----------------------------------------------------------------------------
(* Properties of the merger script. *)

Sources == {"heart_disease_df", "diabetes_alcohol_df", "gdp_obesity_physical_df",
            "weight_health_exp_df"}

\* the merges are done and no imputer has run yet
PreImputation == pc = "impute" /\ col_i = 1

CodeYear(r) == <<r["Country_Code"], r["Year"]>>

\* the metric columns of a standardised input frame
MetricsOf(s) == frames[s].columns \ (IdentifierCols \cup {"Year"})

\* a row of input s whose (Country_Code, Year) occurs in no other input
OnlyIn(s, i) ==
    \A t \in Sources \ {s} : \A k \in RowIdx(frames[t]) :
        CodeYear(frames[t].rows[k]) # CodeYear(frames[s].rows[i])

\* C1: every (Country_Code, Year) of any of the four input frames is in the
\* merged frame, and a key that only one input has appears there with every
\* metric of the other inputs missing, before imputation.
C1_MergeKeepsCoverage ==
    PreImputation =>
        \A s \in Sources : \A i \in RowIdx(frames[s]) :
            /\ \E j \in RowIdx(merged_df) :
                   CodeYear(merged_df.rows[j]) = CodeYear(frames[s].rows[i])
            /\ OnlyIn(s, i) =>
                   \A j \in RowIdx(merged_df) :
                       CodeYear(merged_df.rows[j]) = CodeYear(frames[s].rows[i]) =>
                           \A t \in Sources \ {s} : \A c \in MetricsOf(t) :
                               IsNull(merged_df.rows[j][c])

\* a country that only the diabetes source has, merged with other sources
C1_Witness ==
    /\ PreImputation
    /\ \E i \in RowIdx(frames.diabetes_alcohol_df) : OnlyIn("diabetes_alcohol_df", i)
    /\ \A t \in Sources : frames[t].rows # <<>>

\* rows a of input s and b of input t have the same code, year and (where
\* both inputs have one) gender
SameCodeKey(s, a, t, b) ==
    /\ CodeYear(a) = CodeYear(b)
    /\ ("Gender" \in frames[s].columns /\ "Gender" \in frames[t].columns)
           => a["Gender"] = b["Gender"]

\* merged row m carries the metrics of row a of input s
Carries(m, s, a) == \A c \in MetricsOf(s) : m[c] = a[c]

\* C2: two rows of different sources with the same Country_Code and Year
\* (and Gender where both have it) are combined into one merged row that
\* carries the metrics of both, whatever the display names.
C2_CodeIsJoinKey ==
    PreImputation =>
        \A s \in Sources : \A t \in Sources \ {s} :
            \A i \in RowIdx(frames[s]) : \A k \in RowIdx(frames[t]) :
                SameCodeKey(s, frames[s].rows[i], t, frames[t].rows[k]) =>
                    \E j \in RowIdx(merged_df) :
                        /\ Carries(merged_df.rows[j], s, frames[s].rows[i])
                        /\ Carries(merged_df.rows[j], t, frames[t].rows[k])

HasNegativeGdp(f) ==
    \E i \in RowIdx(f) : NotNull(f.rows[i]["GDP"]) /\ f.rows[i]["GDP"][1] < 0

\* C9: the table written by the pipeline has no negative GDP value.
C9_NoNegativeGdpSaved == saved.written => ~HasNegativeGdp(saved.frame)

\* a table was written from inputs that held a negative GDP
C9_Witness ==
    /\ saved.written
    /\ HasNegativeGdp(frames.gdp_obesity_physical_df)
    /\ \E i \in RowIdx(saved.frame) : IsNull(saved.frame.rows[i]["GDP"])

\* C10: no imputer runs on a frame that holds a negative GDP.
C10_NoNegativeGdpImputed == pc = "impute" => ~HasNegativeGdp(merged_df)

\* C11: in the saved table every column of columns_to_impute holds a value
\* in every row; no step after the imputation loop puts a missing value back.
C11_MetricsFilledWhenSaved ==
    saved.written
        => \A c \in SeqRange(columns_to_impute) \cap saved.frame.columns :
               \A i \in RowIdx(saved.frame) : NotNull(saved.frame.rows[i][c])

-----------------------------------------------------------------------------
(* Properties of the imputers. *)

KnnImputers == {"impute_with_knn", "knn_fill_activity_obesity", "_impute_alcohol_data"}

TimeTrendImputers ==
    {"main_impute_with_polynomial", "da_impute_with_polynomial", "_impute_diabetes_data"}

PolynomialImputers == TimeTrendImputers \cup {"_impute_with_polynomial_fit"}

\* the rows of f with a value in column c
Known(f, c) == {i \in RowIdx(f) : NotNull(f.rows[i][c])}

\* the value of the curve fitted on the known values of the given frame, at
\* the Year of row i
Fitted(i) ==
    Num(PolynomialFit(KnownPoints(given, "Year", TheTarget), given.rows[i]["Year"][1]))

\* C3: after a KNN imputation that returned, every target cell that held a
\* value before the call holds the same value; this for impute_with_knn, the
\* three-column fill of the activity/obesity/GDP cleaner and the scaled fill
\* of the alcohol cleaner.
C3_KnnKeepsKnownValues ==
    (pc = "returned" /\ ~raised /\ op \in KnnImputers)
        => \A c \in target : \A i \in Known(given, c) : df.rows[i][c] = given.rows[i][c]

\* C4: a polynomial time-trend imputer called on a target column with no
\* known value raises no error and returns the frame unchanged.
C4_NoKnownValueNoChange ==
    (pc = "returned" /\ op \in TimeTrendImputers /\ Known(given, TheTarget) = {})
        => ~raised /\ df = given

\* C5: a polynomial imputer called on a target column with fewer than 2
\* known values, here exactly 1, makes no fit and returns the column
\* unchanged.
C5_OneKnownValueNoFit ==
    (pc = "returned" /\ op \in {"main_impute_with_polynomial", "da_impute_with_polynomial"}
                     /\ Cardinality(Known(given, TheTarget)) = 1)
        => ~raised /\ Column(df, TheTarget) = Column(given, TheTarget)

\* C6: after polynomial imputation of a target column with at least 2 known
\* values, every row has a value in the target column.
C6_TwoKnownValuesFillEveryYear ==
    (pc = "returned" /\ op \in PolynomialImputers /\ Cardinality(Known(given, TheTarget)) >= 2)
        => ~raised /\ Known(df, TheTarget) = RowIdx(given)

\* a frame with 2 known values and a missing one went through
\* main_pipeline.impute_with_polynomial
C6_Witness ==
    /\ pc = "returned"
    /\ op = "main_impute_with_polynomial"
    /\ Cardinality(Known(given, TheTarget)) >= 2
    /\ Known(given, TheTarget) # RowIdx(given)

C8_OnlyTargetChanges ==
    (pc = "returned" /\ ~raised)
        => /\ df.columns = given.columns
           /\ Len(df.rows) = Len(given.rows)
           /\ \A i \in RowIdx(given) : \A c \in given.columns \ target :
                  df.rows[i][c] = given.rows[i][c]

\* impute_with_knn filled a target cell of a frame whose feature column has
\* a missing cell and a value
C8_Witness ==
    /\ pc = "returned"
    /\ ~raised
    /\ op = "impute_with_knn"
    /\ df # given
    /\ \E i, j \in RowIdx(given) : /\ IsNull(given.rows[i]["Life_Expectancy"])
                                   /\ NotNull(given.rows[j]["Life_Expectancy"])

-----------------------------------------------------------------------------
(* Properties of the resolvers. *)

CodeResolvers == {"get_country_code", "dm_get_country_code"}

\* the override table of the resolver called
TableOf(o) == IF o = "get_country_code" THEN country_code_mapping ELSE country_code_dict

\* the resolver called, applied to another name
Resolve(o, name) ==
    IF o = "get_country_code" THEN get_country_code(name) ELSE dm_get_country_code(name)

\* C13: get_country_code never raises; it returns the override table's
\* code when the trimmed, title-cased name is a key of the table, otherwise
\* the alpha-3 code of the registry's country for that name, and None when
\* the registry has none.
C13_TableThenRegistryThenNone ==
    (pc = "returned" /\ op \in CodeResolvers)
        => /\ ~raised
           /\ LET name == Title(Strip(arg))
                  known == {c \in Countries :
                               LowerStr(name) \in {LowerStr(c.name), LowerStr(c.alpha_2),
                                                   LowerStr(c.alpha_3)}}
              IN  IF name \in DOMAIN TableOf(op) THEN result = Num(TableOf(op)[name])
                  ELSE IF known = {} THEN result = NaN
                  ELSE \E c \in known : result = Num(c.alpha_3)

\* a name that is not in normal form, whose normal form is a key of the
\* override table and also known to the registry, was resolved
C13_Witness ==
    /\ pc = "returned"
    /\ op = "get_country_code"
    /\ arg # Title(Strip(arg))
    /\ Title(Strip(arg)) \in DOMAIN country_code_mapping
    /\ ~LookupRaises(Title(Strip(arg)))

\* the names the override table or the registry knows
KnownNames(o) == DOMAIN TableOf(o) \cup {c.name : c \in Countries}

\* x and name differ in letter case and surrounding whitespace only
VariantOf(x, name) == LowerStr(Strip(x)) = LowerStr(Strip(name))

\* C14: a variant of a known name that differs from it in letter case or in
\* leading and trailing whitespace only resolves to the code of the name.
C14_CaseAndWhitespaceIgnored ==
    (pc = "returned" /\ op \in CodeResolvers)
        => \A name \in KnownNames(op) : VariantOf(arg, name) => result = Resolve(op, name)

\* a variant, in case and in whitespace, of a key of the override table was
\* resolved to a code
C14_Witness ==
    /\ pc = "returned"
    /\ op = "get_country_code"
    /\ \E name \in DOMAIN country_code_mapping :
           /\ VariantOf(arg, name)
           /\ LowerStr(arg) # LowerStr(name)
           /\ Strip(arg) # name
    /\ result # NaN

Regions == {continent_map[c] : c \in DOMAIN continent_map}

\* C16: get_region never raises, and returns one of the six continent
\* names or "Unknown Region".
C16_RegionIsTotal ==
    (pc = "returned" /\ op = "get_region")
        => ~raised /\ result \in Regions \cup {"Unknown Region"}

-----------------------------------------------------------------------------
(* Properties of the cleaners. *)

\* the column of the country code in the frame cleaner o returns
CodeColumn(o) ==
    CASE o = "process_activity_obesity_gdp" -> "Code"
      [] o = "process_disease_metrics" -> "Country_Code"
      [] o = "prep_gapminder_data" -> "Country_Code"
      [] o = "process_overweight_health" -> "Country_code"

\* C15: every row of a frame a cleaner returns has a country code; a row
\* whose country has no code is not in the frame.
C15_CleanedRowsHaveCode ==
    (pc = "returned" /\ ~raised
     /\ op \in {"process_activity_obesity_gdp", "process_disease_metrics",
                "prep_gapminder_data", "process_overweight_health"})
        => \A i \in RowIdx(result) : NotNull(result.rows[i][CodeColumn(op)])

\* the key columns of frame f: the country, the year, and Gender and
\* Age_Group where f has them
KeyColumns(f) ==
    f.columns \cap {"Country", "Location", "Code", "Country_Code", "Country_code", "Year",
                    "Gender", "Age_Group"}

\* no two rows of f have the same cells in the columns K
UniqueOn(f, K) ==
    \A i, j \in RowIdx(f) : (\A c \in K : f.rows[i][c] = f.rows[j][c]) => i = j

\* the rows of f for the country and year of row r
RowsFor(f, country_col, r) ==
    {i \in RowIdx(f) : f.rows[i][country_col] = r[country_col] /\ f.rows[i]["Year"] = r["Year"]}

\* C17: after the placeholder-year step no two rows have the same country,
\* year and Gender; every row has a value in each of these columns; and for
\* a country and year that had a row before the step, every row after it is
\* one of the rows there were (no placeholder is added for them).
C17_PlaceholdersOnlyWhereVacant ==
    (pc = "returned" /\ ~raised /\ op \in {"_adding_missing_years", "add_missing_years"})
        => LET country_col == IF op = "_adding_missing_years" THEN "Location" ELSE "Country"
               K == {country_col, "Year"} \cup (result.columns \cap {"Gender"})
           IN  /\ UniqueOn(result, K)
               /\ \A i \in RowIdx(result) : \A c \in K : NotNull(result.rows[i][c])
               /\ \A i \in RowIdx(arg.df) :
                      \A j \in RowsFor(result, country_col, arg.df.rows[i]) :
                          result.rows[j] \in SeqRange(arg.df.rows)

\* C18: in the frame a cleaner returns no two rows have the same key
\* (country, code, year, and Gender and Age_Group where present), whatever
\* rows of one key the raw tables hold.
C18_CleanedKeysUnique ==
    (pc = "returned" /\ ~raised
     /\ op \in {"process_activity_obesity_gdp", "process_disease_metrics",
                "process_overweight_health"})
        => UniqueOn(result, KeyColumns(result))

\* the rows of f whose cell in column c holds code
RowsOf(f, c, code) == FilterRows(f, LAMBDA r : r[c] = Num(code))

\* C19: the Health_Expenditure and Life_Expectancy of the rows of a country
\* are those the cleaner gives when the tables hold the rows of that country
\* alone.
C19_FilledFromOwnCountry ==
    (pc = "returned" /\ ~raised /\ op = "process_overweight_health")
        => \A code \in valid_country_codes :
               LET alone == process_overweight_health(
                                RowsOf(arg.overweight_data, "SpatialDimValueCode", code),
                                RowsOf(arg.world_health_data, "country_code", code),
                                RowsOf(arg.life_expectancy_data, "SpatialDimValueCode", code))
               IN  RowsOf(result, "Country_code", code).rows = alone.df.rows

-----------------------------------------------------------------------------
(* Properties of the steps of the cleaners. *)

\* C21: a step leaves the frames of its caller as they were: after the call
\* each frame the caller handed over has the column names and the cells it
\* had when the call was made.
C21_CallerFramesUnchanged ==
    (pc = "returned" /\ op \in Steps) => frames = arg

\* the keys of the overweight/health frames
HealthKeys(f) ==
    {<<f.rows[i]["Country_code"], f.rows[i]["Country"], f.rows[i]["Year"]>> : i \in RowIdx(f)}

\* the Life_Expectancy cells of the rows of world_df with the key of row r
WorldLifeExpectancy(world_df, r) ==
    {world_df.rows[k]["Life_Expectancy"] :
         k \in {h \in RowIdx(world_df) : \A c \in {"Country_code", "Country", "Year"} :
                                            world_df.rows[h][c] = r[c]}}

\* C28: the frame _merge_and_clean_datasets returns has the keys of the
\* overweight frame and no other; the fills after the merge add no row; and
\* a row whose key has a Life_Expectancy in the world-health frame keeps
\* that value, the supplement filling missing cells only.
C28_KeysOfOverweightOnly ==
    (pc = "returned" /\ ~raised /\ op = "_merge_and_clean_datasets")
    => /\ HealthKeys(result) = HealthKeys(arg.overweight_df)
       /\ Len(result.rows)
              = Len(MergeLeft(arg.overweight_df, arg.world_df,
                              <<"Country_code", "Country", "Year">>).rows)
       /\ \A i \in RowIdx(result) :
              LET known == WorldLifeExpectancy(arg.world_df, result.rows[i]) \ {NaN}
              IN  known # {} => result.rows[i]["Life_Expectancy"] \in known

\* a key of the world-health frame alone is left out, and a missing
\* Life_Expectancy has been filled from the supplement
C28_Witness ==
    /\ pc = "returned" /\ ~raised /\ op = "_merge_and_clean_datasets"
    /\ HealthKeys(arg.world_df) \ HealthKeys(arg.overweight_df) # {}
    /\ \E i \in RowIdx(result) :
           /\ WorldLifeExpectancy(arg.world_df, result.rows[i]) \subseteq {NaN}
           /\ \E k \in RowIdx(arg.life_expectancy_df) :
                  /\ arg.life_expectancy_df.rows[k]["Country_code"] = result.rows[i]["Country_code"]
                  /\ arg.life_expectancy_df.rows[k]["Year"] = result.rows[i]["Year"]
                  /\ NotNull(result.rows[i]["Life_Expectancy"])
                  /\ result.rows[i]["Life_Expectancy"]
                         = arg.life_expectancy_df.rows[k]["Imputed_Life_Expectancy"]

\* C29: after _impute_diabetes_data two rows of one Year have the same
\* prevalence whatever their country and gender, and the prevalence of every
\* row, the rows that had a value included, is the value at its Year of the
\* one polynomial fitted to the known points of all countries.
C29_DiabetesFitIsGlobal ==
    (pc = "returned" /\ ~raised /\ op = "_impute_diabetes_data")
    => /\ \A i, j \in RowIdx(result) :
              result.rows[i]["Year"] = result.rows[j]["Year"]
              => result.rows[i][Prevalence] = result.rows[j][Prevalence]
       /\ \A i \in RowIdx(result) :
              result.rows[i][Prevalence]
                  = Num(PolynomialFit(KnownPoints(arg.df, "Year", Prevalence),
                                      arg.df.rows[i]["Year"][1]))

\* two countries with different known values in one year got one value
C29_Witness ==
    /\ pc = "returned" /\ ~raised /\ op = "_impute_diabetes_data"
    /\ \E i, j \in RowIdx(result) :
           /\ arg.df.rows[i]["Year"] = arg.df.rows[j]["Year"]
           /\ arg.df.rows[i]["Location"] # arg.df.rows[j]["Location"]
           /\ arg.df.rows[i]["Gender"] # arg.df.rows[j]["Gender"]
           /\ NotNull(arg.df.rows[i][Prevalence])
           /\ NotNull(arg.df.rows[j][Prevalence])
           /\ arg.df.rows[i][Prevalence] # arg.df.rows[j][Prevalence]
           /\ result.rows[i][Prevalence] = result.rows[j][Prevalence]
           /\ result.rows[i][Prevalence] # arg.df.rows[i][Prevalence]

\* the region of a country of the mapping
MappedCountries == {region_mapping[k][1] : k \in DOMAIN region_mapping}

MappedRegion(country) ==
    region_mapping[CHOOSE k \in DOMAIN region_mapping : region_mapping[k][1] = country][2]

\* C30: _fill_missing_values_with_regional leaves the frame it was handed as
\* it was; in the frame it returns a row differs from the row handed over
\* only if its country is in region_mapping and its value was missing, and
\* then its value is that of the row of the mapped region for the same year,
\* or still missing when the region has no such row.
C30_OnlyMissingCellsFilled ==
    (pc = "returned" /\ op = "_fill_missing_values_with_regional")
    => /\ frames = arg
       /\ Len(result.rows) = Len(arg.df.rows)
       /\ \A i \in RowIdx(result) :
              LET before == arg.df.rows[i]
              IN  \/ result.rows[i] = before
                  \/ /\ NotNull(before["Location"])
                     /\ before["Location"][1] \in MappedCountries
                     /\ IsNull(before["Alcohol_Value"])
                     /\ result.rows[i]
                            = [before EXCEPT !["Alcohol_Value"] =
                                  RegionalValue(arg.df, MappedRegion(before["Location"][1]),
                                                before["Year"])]

-----------------------------------------------------------------------------
(* Properties of the two jobs run one after the other. *)

\* the merged table of a run from the raw files, before the imputation loop
MergedFromRaw == op = "main_pipeline" /\ pc = "impute" /\ col_i = 1

\* the Gender of the merged table for a label of a source
GenderOf == [Male |-> "Male", Female |-> "Female", Men |-> "Male", Women |-> "Female"]

\* the rows of a disease table have their Gender in the merged table
DiseaseGenderKept ==
    LET source == arg.disease_metrics.incidence_data
    IN  \A k \in RowIdx(source) :
            source.rows[k]["sex_name"][1] \in {"Male", "Female"}
            => \E i \in RowIdx(merged_df) :
                   /\ merged_df.rows[i]["Country"] = source.rows[k]["location_name"]
                   /\ merged_df.rows[i]["Year"] = source.rows[k]["year"]
                   /\ merged_df.rows[i]["IncidenceRate"] = source.rows[k]["val"]
                   /\ merged_df.rows[i]["Gender"] = Num(GenderOf[source.rows[k]["sex_name"][1]])

\* the rows of the diabetes file have their Gender in the merged table
DiabetesGenderKept ==
    LET source == arg.diabetes_alcohol.diabetes_data
    IN  \A k \in RowIdx(source) :
            \E i \in RowIdx(merged_df) :
                /\ merged_df.rows[i]["Country"] = source.rows[k]["Country/Region/World"]
                /\ merged_df.rows[i]["Year"] = source.rows[k]["Year"]
                /\ merged_df.rows[i]["Gender"] = Num(GenderOf[source.rows[k]["Sex"][1]])

\* C26: a source row of gender Male (Female) has Gender 'Male' ('Female') in
\* the merged table, for the disease tables, whose labels are encoded by
\* their sorted order, and for the diabetes file (Men=0, Women=1).
C26_GenderSurvivesRoundTrip ==
    MergedFromRaw => (DiseaseGenderKept /\ DiabetesGenderKept)

\* the join keys of the three merges
MergeKeys ==
    << <<"Country_Code", "Country", "Year", "Gender">>, <<"Country_Code", "Country", "Year">>,
       <<"Country_Code", "Country", "Year">> >>

\* C27: in a run from the raw files every join key of the three merges is a
\* column of both frames of its merge, every column of columns_to_impute is
\* a column of the merged frame, and the run does not stop on an exception.
C27_MergerColumnsExist ==
    op = "main_pipeline"
    => /\ pc = "standardized"
          => /\ SeqRange(MergeKeys[1]) \subseteq frames.heart_disease_df.columns
                                                 \cap frames.diabetes_alcohol_df.columns
             /\ SeqRange(MergeKeys[2]) \subseteq frames.gdp_obesity_physical_df.columns
             /\ SeqRange(MergeKeys[3]) \subseteq frames.weight_health_exp_df.columns
       /\ pc = "impute" => SeqRange(columns_to_impute) \subseteq merged_df.columns
       /\ pc # "aborted"

-----------------------------------------------------------------------------
(* Properties of the dashboard. *)

\* C22: after any sequence of dashboard callbacks the table loaded at
\* startup has the columns and the cell values, the Region column included,
\* that it had right after the load.
C22_TableAsLoaded == Serving => df = given

\* what the callback served last returns for its parameters when it is
\* computed from the table as loaded, with nothing served before
FreshResponse ==
    IF op = "display_page" THEN page(arg[1], given, corr_data)
    ELSE IF op = "update_plots"
    THEN plots(given, arg[1], arg[2], arg[3], arg[4], arg[5], arg[6])
    ELSE IF op = "update_map" THEN world_map(given, arg[1])
    ELSE IF op = "update_top_countries" THEN top_countries(given, arg[1], arg[2])
    ELSE IF op = "update_prevalence_rate" THEN prevalence_rate(given, arg[1])
    ELSE IF op = "update_age_grouped_mortality"
    THEN age_grouped_mortality(given, arg[1], arg[2])
    ELSE IF op = "update_country_gender_mortality"
    THEN country_gender_mortality(given, arg[1], arg[2])
    ELSE IF op = "update_average_mortality" THEN average_mortality(given, arg[1])
    ELSE IF op = "update_risk_factors_plot" THEN risk_factors_plot(given, arg[1])
    ELSE IF op = "update_heatmap" THEN heatmap(corr_data, arg[1], arg[2], arg[3])
    ELSE IF op = "update_scatter" THEN scatter(corr_data, arg[1], arg[2], arg[3], arg[4])
    ELSE SankeyLinks(WithLevels(sankey_data_prep(given), columns_to_categorize(arg[1])),
                     arg[1])

\* C23: the data a callback returns for its parameters is the same whatever
\* was served before it and whether it is computed or taken from the cache:
\* it is what the callback computes from the table as loaded.
C23_SameDataWhateverWasServed == (pc = "served" /\ ~raised) => result = FreshResponse

\* the filters of the request served last leave no row
NoRowsLeft ==
    \/ /\ op = "update_plots"
       /\ PlotFilter(df, arg[1], arg[2], arg[5], arg[6]).rows = <<>>
    \/ /\ op = "update_top_countries"
       /\ TopFiltered(df, arg[2]).rows = <<>>
    \/ /\ op = "update_heatmap"
       /\ filter_heatmap_data(corr_data, arg[1], arg[2]).rows = <<>>
    \/ /\ op = "update_scatter"
       /\ filter_scatter_data(corr_data, arg[1], arg[2], arg[3], arg[4]) = {}

\* the figures of the response carry the 'no data available' placeholder
PlaceholderShown ==
    IF op = "update_plots"
    THEN result.choropleth.title = NoDataTitle /\ result.bar.title = NoDataTitle
    ELSE IF op = "update_top_countries" THEN TRUE
    ELSE result.title = NoDataTitle

\* C24: when the selected filters leave no rows, a chart-producing callback
\* does not raise and returns figures that carry the 'no data available'
\* placeholder.
C24_PlaceholderWhenNoRows == (pc = "served" /\ NoRowsLeft) => (~raised /\ PlaceholderShown)

\* the 8 rows with the largest value of the metric among the rows of the
\* year with Gender 'Both', largest first and ranked from 1; all of them
\* when there are fewer
TopEight(table, selected_metric, selected_year) ==
    LET top == nlargest(TopFiltered(table, selected_year), 8, selected_metric)
    IN  [k \in RowIdx(top) |->
            [Rank |-> k, Country |-> top.rows[k]["Country"],
             Value |-> top.rows[k][selected_metric]]]

\* C25: the table of the top countries returns the 8 rows with the largest
\* value of the metric among the rows of the year with Gender 'Both', in
\* descending order and ranked 1 to 8, and all of them ranked from 1 without
\* raising when there are fewer than 8.
C25_TopEightRanked ==
    (pc = "served" /\ op = "update_top_countries")
        => (~raised /\ result = TopEight(df, arg[1], arg[2]))

-----------------------------------------------------------------------------
(* Properties of a call on a frame that lacks a column. *)

\* C20: a call on a frame that lacks a column the operation reads raises; it
\* does not return a frame, whatever the other columns hold.
C20_MissingColumnRaises ==
    (pc = "returned" /\ RequiredOf(op) \ given.columns # {}) => raised

-----------------------------------------------------------------------------
(* Properties of a run. *)

\* C12: a run that a stage has aborted has raised and has written no file;
\* the merge job has written its file only when it is done, and the cleaning
\* job has written a file only when all four cleaners have returned.
C12_OutputOnlyAfterAllStages ==
    /\ pc = "aborted" => (raised /\ ~saved.written /\ DOMAIN datasets = {})
    /\ saved.written => (pc = "done" /\ ~raised)
    /\ DOMAIN datasets # {} => (~raised /\ DOMAIN result = ProcessedNames)

\* the cleaning job aborted in its last cleaner, the merge job in its imputer
C12_Witness ==
    /\ pc = "aborted"
    /\ \/ op = "processing.main" /\ Cardinality(DOMAIN result) = 3
       \/ op = "none" /\ col_i >= 1

====
